---- MODULE Spec2Model ----
\* Verification model of the audio transcription pipeline of api-transcricao:
\* the chunker (AudioProcessor), the retrying transcription client and batch
\* coordinator (WhisperService) and the orchestrator's retry loop
\* (TranscriptionService.transcribeAudio).
\*
\* Units: times are integer milliseconds, sizes are bytes, the speed factor is
\* kept in tenths (20 is 2.0x).  JavaScript doubles are modelled by integers;
\* a division is the integer quotient.
EXTENDS Integers, Sequences, FiniteSets, TLC

\* ---------------------------------------------------------------- bounds
MaxSilences == 2
MaxChunks == 3
MaxStitchChunks == 2
MaxJobChunks == 2
\* config.transcription.maxRetries and config.transcription.concurrentChunks
\* (environment settings MAX_RETRIES, CONCURRENT_CHUNKS)
maxRetries == 2
MaxSegments == 4
MaxTasks == 4
MaxPermits == 3
concurrentChunks == 2

\* ------------------------------------------------------ program constants
maxChunkBytes == 18874368
maxChunkDurationAccelerated == 1200000
silenceWindow == 5000
minChunkDuration == 30000
negligibleDuration == 100
maxPlannedChunks == 1000
minAttemptDuration == 1000
maxGlobalRetries == 3
repetitionThreshold == 3
minRepetitionLength == 5
minimalTextLength == 10
maxTranscriptionRetries == 3
gapTolerance == 1000
maxAcceptableGap == 60000
densityWindow == 60000
cleanupDelay == 5
maxSpeed == 30

\* ------------------------------------------------------------- variables
VARIABLES
    chunkerRev,         \* "smart": services/audioProcessor.ts, "uniform": its previous revision
    speedFactor,        \* this.speedFactor, in tenths
    originalDuration,   \* createChunks argument, ms
    originalSizeBytes,  \* createChunks argument
    encodedRate,        \* bytes per second of the chunk encoder's output (libmp3lame)
    silences,           \* what detectSilence resolved, sorted by start
    cpc,                \* position of createChunks: "start", "plan", "cut", "done", "failed"
    plans,              \* planSilenceBasedChunks: plans
    currentStart,       \* planSilenceBasedChunks: currentStart / createChunks: originalStartTime
    chunkIndex,         \* planSilenceBasedChunks: chunkIndex / createChunks: chunkIndex
    attemptDuration,    \* createChunks (uniform): attemptDuration of the chunk being cut
    chunks,             \* the chunk list being built and, at "done", returned
    sizeWarnings        \* indices of the chunks a size-exceeded message was logged for

VARIABLES
    whisperRev,         \* "tracking": WhisperService with the global retry loop, "single": the single-pass revision
    numChunks,          \* chunks.length of the job
    tpc,                \* position of the transcription phase: "off", "call", "pass", "running",
                        \* "returned", "threw", "transcribed", "jobFailed"
    transcriptionAttempt, \* transcribeAudio: transcriptionAttempt
    attempt,            \* transcribeChunks: attempt
    batchAttempts,      \* passes over the chunk set started so far in this job
    permits,            \* Semaphore.permits
    waitQueue,          \* Semaphore.waitQueue (the chunks whose resolver is queued)
    cst,                \* per chunk: "idle", "waiting", "acquired", "retrying", "finished"
    attemptNumber,      \* per chunk: attemptNumber of the retry operation
    errors,             \* per chunk: the errors the retry operation collected
    responses,          \* per chunk: what the service answered to the calls of this transcribeChunk
    cache,              \* per chunk: cache file "none", "valid", "corrupt"
    results,            \* processChunksWithTracking: results (completion order)
    chunkResults,       \* what transcribeChunks returned last (sorted), <<>> before
    permFailed,         \* chunks that so far ended a transcribeChunk with a 400/413 bail
    flakyChunk,         \* the chunk whose requests the service may fail (0: any chunk's)
    cacheData           \* per chunk: the segments stored in its cache file (0: none stored)

VARIABLES
    stitchInput,        \* processChunkResults argument chunkResults
    spc,                \* position of processChunkResults / the end of transcribeAudio:
                        \* "off", "sort", "chunk", "segment", "returned", "completed", "failed"
    sortedResults,      \* processChunkResults: sortedResults
    resultIdx,          \* processChunkResults: i + 1
    segIdx,             \* position in result.segments (1-based)
    segments,           \* processChunkResults: segments
    warnings,           \* processChunkResults: warnings
    segmentIndex,       \* processChunkResults: segmentIndex
    lastEndTime,        \* processChunkResults: lastEndTime, ms
    emittedFrom,        \* for each emitted segment, <<chunk position, segment position>> it came from
    skipped,            \* service segments skipped as duplicates, as <<chunk position, segment position>>
    jobStatus           \* job.status of the request: "processing", "completed", "failed"

stitchVars == <<stitchInput, spc, sortedResults, resultIdx, segIdx, segments,
                warnings, segmentIndex, lastEndTime, emittedFrom, skipped, jobStatus>>

chunkerVars == <<chunkerRev, speedFactor, originalDuration, originalSizeBytes,
                 encodedRate, silences, cpc, plans, currentStart, chunkIndex,
                 attemptDuration, chunks, sizeWarnings>>

transcriptionVars == <<whisperRev, numChunks, tpc, transcriptionAttempt, attempt,
                       batchAttempts, permits, waitQueue, cst, attemptNumber,
                       errors, responses, cache, results, chunkResults, permFailed>>

VARIABLES
    jpc,                \* position of transcribeAudio: "off", "transform", "chunk", "transcribe",
                        \* "emit", "completed", "failed"
    phaseLog,           \* the phases started so far, in order
    cleanupScheduled,   \* number of setTimeout calls made for audioProcessor.cleanup
    timerElapsed,       \* minutes since the pending timer was set (-1: no timer pending)
    cleanupRuns,        \* number of audioProcessor.cleanup calls
    tempDir,            \* the job's working directory: "exists" or "deleted"
    processedDuration,  \* duration of the processed file as ffprobe reports it, ms (0: no file)
    stitched,           \* what processChunkResults gave the job: "", "segments" or "none"
    outputWritten       \* an output file (SRT, TXT) of the job has been written

pipelineVars == <<jpc, phaseLog, cleanupScheduled, timerElapsed, cleanupRuns, tempDir,
                  processedDuration, stitched, outputWritten>>

VARIABLES
    statusReply,        \* the last answer of GET /status/:jobId (jobId "" before the first)
    request,            \* the HTTP request followed: route, x-api-key and authorization headers
    rpc,                \* its position: "off", "received", "next" (handed to the route
                        \* handler), "running" (awaiting transcribeAudio), "done"
    httpStatus,         \* status code of the response (0: none sent)
    jobsStarted         \* number of transcribeAudio calls made for it

apiVars == <<statusReply, request, rpc, httpStatus, jobsStarted>>

VARIABLES
    whisperResponse,    \* the last answer of the service: its status and, for a 200, the
                        \* body's segments (their texts) and duration in ms
    chunkLength,        \* chunk.duration of the chunks, ms
    cachedDuration,     \* per chunk: duration of the payload last written to its cache file
    serviceBody,        \* the body the service makes of the chunk's audio when it answers 200
    cancelled           \* the client of the request has gone away

guardVars == <<whisperResponse, chunkLength, cachedDuration, serviceBody, cancelled>>

VARIABLES
    probed,             \* what ffprobe and stat report for the processed file: duration in
                        \* ms, size in bytes
    validationResult,   \* what validateProcessedAudio resolved with
    processAudioResult  \* how processAudio's promise settled: "pending", "resolved" or
                        \* the kind of error it rejected with

transformVars == <<probed, validationResult, processAudioResult>>

VARIABLES
    capacity,           \* the permits a Semaphore was constructed with
    task                \* per task handed to Semaphore.acquire: "created", "waiting",
                        \* "running", "resolved" or "rejected"

semaphoreVars == <<capacity, task>>

vars == <<chunkerVars, transcriptionVars, flakyChunk, cacheData, stitchVars, pipelineVars,
          apiVars, guardVars, transformVars, semaphoreVars>>

ChunkIds == 1..MaxChunks

\* the transcription phase has not been entered
TranscriptionOff ==
    /\ whisperRev = "single"
    /\ numChunks = 0
    /\ tpc = "off"
    /\ transcriptionAttempt = 1
    /\ attempt = 1
    /\ batchAttempts = 0
    /\ permits = concurrentChunks
    /\ waitQueue = <<>>
    /\ cst = [c \in ChunkIds |-> "idle"]
    /\ attemptNumber = [c \in ChunkIds |-> 0]
    /\ errors = [c \in ChunkIds |-> <<>>]
    /\ responses = [c \in ChunkIds |-> <<>>]
    /\ cache = [c \in ChunkIds |-> "none"]
    /\ results = <<>>
    /\ chunkResults = <<>>
    /\ permFailed = {}
    /\ flakyChunk = 0
    /\ cacheData = [c \in ChunkIds |-> 0]

\* no Semaphore is looked at on its own
SemaphoreOff ==
    /\ capacity = 0
    /\ task = <<>>

\* no processed file is validated
TransformOff ==
    /\ probed = [duration |-> 0, sizeBytes |-> 0]
    /\ validationResult = [isValid |-> FALSE, error |-> ""]
    /\ processAudioResult = "off"

\* no response body is looked at
GuardOff ==
    /\ whisperResponse = [status |-> 0, segments |-> <<>>, duration |-> 0]
    /\ chunkLength = 0
    /\ cachedDuration = [c \in 1..MaxChunks |-> 0]
    /\ serviceBody = [status |-> 0, segments |-> <<>>, duration |-> 0]
    /\ cancelled = FALSE

\* no request has been answered
ApiOff ==
    /\ statusReply = [jobId |-> "", exists |-> FALSE, completed |-> FALSE, status |-> ""]
    /\ request = [route |-> "", xApiKey |-> <<>>, authorization |-> <<>>]
    /\ rpc = "off"
    /\ httpStatus = 0
    /\ jobsStarted = 0

\* no transcribeAudio call is followed
PipelineOff ==
    /\ jpc = "off"
    /\ phaseLog = <<>>
    /\ cleanupScheduled = 0
    /\ timerElapsed = -1
    /\ cleanupRuns = 0
    /\ tempDir = "exists"
    /\ processedDuration = 0
    /\ stitched = ""
    /\ outputWritten = FALSE

\* processChunkResults has not been called
StitchOff ==
    /\ stitchInput = <<>>
    /\ spc = "off"
    /\ sortedResults = <<>>
    /\ resultIdx = 0
    /\ segIdx = 0
    /\ segments = <<>>
    /\ warnings = <<>>
    /\ segmentIndex = 1
    /\ lastEndTime = 0
    /\ emittedFrom = <<>>
    /\ skipped = {}
    /\ jobStatus = "processing"

\* the chunker is not part of the run
ChunkerOff ==
    /\ chunkerRev = "smart"
    /\ speedFactor = 20
    /\ originalDuration = 0
    /\ originalSizeBytes = 0
    /\ encodedRate = 0
    /\ silences = <<>>
    /\ cpc = "off"
    /\ plans = <<>>
    /\ currentStart = 0
    /\ chunkIndex = 0
    /\ attemptDuration = 0
    /\ chunks = <<>>
    /\ sizeWarnings = {}

\* ---------------------------------------------------------------- helpers
Min(a, b) == IF a < b THEN a ELSE b
Max(a, b) == IF a > b THEN a ELSE b
Abs(x) == IF x < 0 THEN -x ELSE x
CeilDiv(a, b) == (a + b - 1) \div b

RECURSIVE SumDurations(_, _)
SumDurations(cs, i) ==
    IF i > Len(cs) THEN 0 ELSE cs[i].duration + SumDurations(cs, i + 1)

\* ------------------------------------------------------- chunker inputs
SpeedChoices == {10, 15, 20, 30}
DurationChoices == {12000, 60050, 100000, 4800000}
SizeChoices == {1048576, 41943040}
\* encoder output rates (bytes per second); the huge one keeps a chunk above
\* 18 MiB however short it is cut, and is paired with short inputs only
NormalRates == {8000, 16000}
HugeRates == {20000000}
ShortDurations == {12000}

Silence(s, e) == [start |-> s, end |-> e, duration |-> e - s]
SilencePool ==
    { Silence(1000, 2000), Silence(50000, 54000), Silence(56000, 58000),
      Silence(96000, 98000),
      Silence(99900, 100000), Silence(2401000, 2403000) }

SilenceLists ==
    { s \in UNION { [1..n -> SilencePool] : n \in 0..MaxSilences } :
        \A i \in 1..Len(s) : \A j \in 1..Len(s) : i < j => s[i].start < s[j].start }

\* ------------------------------------------- createSmartChunks: planning
SafeOriginalDuration(d) == IF d > 0 THEN d ELSE 1000

MinChunksBySize(bytes) == Max(1, CeilDiv(bytes, maxChunkBytes))

MinChunksByDuration(d, f) ==
    Max(1, CeilDiv(SafeOriginalDuration(d) * 10, f * maxChunkDurationAccelerated))

TotalChunksNeeded(d, bytes, f) ==
    Max(MinChunksByDuration(d, f), MinChunksBySize(bytes))

IdealChunkDurationOriginal(d, bytes, f) ==
    SafeOriginalDuration(d) \div TotalChunksNeeded(d, bytes, f)

\* createChunks (uniform): chunkDurationOriginalTimeline
ChunkDurationOriginalTimeline(d, bytes, f) ==
    Max(minAttemptDuration, SafeOriginalDuration(d) \div TotalChunksNeeded(d, bytes, f))

SilenceCenter(s) == s.start + s.duration \div 2

CandidateSilences(sil, windowStart, windowEnd) ==
    SelectSeq(sil, LAMBDA s : s.start >= windowStart /\ s.end <= windowEnd)

RECURSIVE ReduceBest(_, _, _, _)
ReduceBest(cands, i, best, targetEnd) ==
    IF i > Len(cands) THEN best
    ELSE ReduceBest(cands, i + 1,
            IF Abs(SilenceCenter(cands[i]) - targetEnd) < Abs(SilenceCenter(best) - targetEnd)
            THEN cands[i] ELSE best,
            targetEnd)

BestSilence(cands, targetEnd) == ReduceBest(cands, 2, cands[1], targetEnd)

\* One iteration of the while loop of planSilenceBasedChunks, from currentStart = cs.
PlanIteration(cs, totalDuration, idealChunkDuration, sil) ==
    LET remainingDuration == totalDuration - cs
        targetDuration == Min(idealChunkDuration, remainingDuration)
        targetEnd == cs + targetDuration
        windowStart == Max(0, targetEnd - silenceWindow)
        windowEnd == Min(totalDuration, targetEnd + silenceWindow)
        candidateSilences == CandidateSilences(sil, windowStart, windowEnd)
        snapped == Len(candidateSilences) > 0
        bestSilence == BestSilence(candidateSilences, targetEnd)
        snappedEnd == IF snapped THEN SilenceCenter(bestSilence) ELSE targetEnd
        tooShort == (snappedEnd - cs < minChunkDuration)
                        /\ (remainingDuration > minChunkDuration)
        movedEnd == IF tooShort THEN Min(cs + minChunkDuration, totalDuration)
                    ELSE snappedEnd
        actualEnd == Min(movedEnd, totalDuration)
        usedSilence == snapped /\ ~tooShort
    IN  [ targetStart |-> cs,
          targetEnd |-> targetEnd,
          actualStart |-> cs,
          actualEnd |-> actualEnd,
          duration |-> actualEnd - cs,
          usedSilence |-> usedSilence,
          silenceStart |-> IF usedSilence THEN bestSilence.start ELSE -1,
          silenceEnd |-> IF usedSilence THEN bestSilence.end ELSE -1 ]

NeverNegligible(finalDuration) == FALSE
OnlyNegative(finalDuration) == finalDuration < 0
\* planSilenceBasedChunks: finalDuration < 0.1 ends the loop
IsNegligible(finalDuration) == finalDuration < negligibleDuration

NextStartAtTarget(it) == it.targetEnd
\* planSilenceBasedChunks: currentStart = actualEnd
NextStart(it) == it.actualEnd

\* size of the file createChunk writes for an accelerated duration (ms)
ChunkFileSize(acceleratedMs, rate) == (acceleratedMs \div 100) * (rate \div 10)

SizeNeverExceeds(size) == FALSE
\* chunkSizeBytes > maxChunkBytes
SizeExceeds(size) == size > maxChunkBytes

\* ------------------------------------------------------- chunker actions
\* createChunks up to its first loop: detectSilence has resolved `silences`.
CreateChunks ==
    /\ cpc = "start"
    /\ IF chunkerRev = "smart"
       THEN /\ cpc' = "plan"
            /\ UNCHANGED attemptDuration
       ELSE IF 0 < originalDuration
            THEN /\ cpc' = "cut"
                 /\ attemptDuration' =
                        Min(ChunkDurationOriginalTimeline(originalDuration,
                                originalSizeBytes, speedFactor), originalDuration)
            ELSE /\ cpc' = "done"
                 /\ UNCHANGED attemptDuration
    /\ UNCHANGED <<chunkerRev, speedFactor, originalDuration, originalSizeBytes,
                   encodedRate, silences, plans, currentStart, chunkIndex, chunks,
                   sizeWarnings>>

\* One iteration of planSilenceBasedChunks' loop; after the last one the plans
\* are returned to createSmartChunks, which starts cutting.
PlanStep ==
    /\ cpc = "plan"
    /\ LET total == SafeOriginalDuration(originalDuration)
           it == PlanIteration(currentStart, total,
                    IdealChunkDurationOriginal(originalDuration, originalSizeBytes,
                                               speedFactor),
                    silences)
           planned == Append(plans, [index |-> chunkIndex] @@ it)
       IN  IF IsNegligible(it.duration)
           THEN /\ cpc' = IF Len(plans) = 0 THEN "done" ELSE "cut"
                /\ UNCHANGED <<plans, currentStart, chunkIndex>>
           ELSE /\ plans' = planned
                /\ currentStart' = NextStart(it)
                /\ chunkIndex' = chunkIndex + 1
                /\ cpc' = IF NextStart(it) >= total \/ chunkIndex + 1 > maxPlannedChunks
                             \/ ~(NextStart(it) < total)
                          THEN "cut" ELSE "plan"
    /\ UNCHANGED <<chunkerRev, speedFactor, originalDuration, originalSizeBytes,
                   encodedRate, silences, attemptDuration, chunks, sizeWarnings>>

\* createSmartChunks: one pass of the loop over the plans (cut, stat, check, push).
SmartCut ==
    /\ cpc = "cut"
    /\ chunkerRev = "smart"
    /\ Len(chunks) < Len(plans)
    /\ LET plan == plans[Len(chunks) + 1]
           chunkSizeBytes == ChunkFileSize((plan.duration * 10) \div speedFactor, encodedRate)
       IN  IF SizeExceeds(chunkSizeBytes)
           THEN /\ sizeWarnings' = sizeWarnings \cup {plan.index}
                /\ cpc' = "failed"
                /\ UNCHANGED chunks
           ELSE /\ chunks' = Append(chunks,
                        [ index |-> plan.index,
                          path |-> plan.index + 1,
                          duration |-> plan.duration,
                          startTime |-> plan.actualStart,
                          sizeBytes |-> chunkSizeBytes ])
                /\ cpc' = IF Len(chunks) + 1 = Len(plans) THEN "done" ELSE "cut"
                /\ UNCHANGED sizeWarnings
    /\ UNCHANGED <<chunkerRev, speedFactor, originalDuration, originalSizeBytes,
                   encodedRate, silences, plans, currentStart, chunkIndex,
                   attemptDuration>>

\* createChunks (uniform revision): one createChunk of the inner loop and what
\* follows it up to the next createChunk or the return.
UniformCut ==
    /\ cpc = "cut"
    /\ chunkerRev = "uniform"
    /\ LET chunkSizeBytes ==
               ChunkFileSize(Max((attemptDuration * 10) \div speedFactor, 1), encodedRate)
           nextStart == currentStart + attemptDuration
       IN  IF ~SizeExceeds(chunkSizeBytes) \/ attemptDuration <= minAttemptDuration
           THEN /\ sizeWarnings' = IF SizeExceeds(chunkSizeBytes)
                                   THEN sizeWarnings \cup {chunkIndex + 1}
                                   ELSE sizeWarnings
                /\ chunks' = Append(chunks,
                        [ index |-> chunkIndex + 1,
                          path |-> chunkIndex + 1,
                          duration |-> attemptDuration,
                          startTime |-> currentStart,
                          sizeBytes |-> chunkSizeBytes ])
                /\ currentStart' = nextStart
                /\ chunkIndex' = chunkIndex + 1
                /\ IF nextStart < originalDuration
                   THEN /\ attemptDuration' =
                               Min(ChunkDurationOriginalTimeline(originalDuration,
                                       originalSizeBytes, speedFactor),
                                   originalDuration - nextStart)
                        /\ cpc' = "cut"
                   ELSE /\ cpc' = "done"
                        /\ UNCHANGED attemptDuration
           ELSE /\ attemptDuration' = Max(attemptDuration \div 2, minAttemptDuration)
                /\ UNCHANGED <<sizeWarnings, chunks, currentStart, chunkIndex, cpc>>
    /\ UNCHANGED <<chunkerRev, speedFactor, originalDuration, originalSizeBytes,
                   encodedRate, silences, plans>>

ChunkerInit ==
    /\ chunkerRev \in {"smart", "uniform"}
    /\ speedFactor \in SpeedChoices
    /\ originalDuration \in DurationChoices
    /\ originalSizeBytes \in SizeChoices
    /\ encodedRate \in NormalRates \cup HugeRates
    /\ encodedRate \in HugeRates => originalDuration \in ShortDurations
    /\ silences \in IF chunkerRev = "smart" THEN SilenceLists ELSE {<<>>}
    /\ cpc = "start"
    /\ plans = <<>>
    /\ currentStart = 0
    /\ chunkIndex = 0
    /\ attemptDuration = 0
    /\ chunks = <<>>
    /\ sizeWarnings = {}
    /\ TranscriptionOff
    /\ StitchOff
    /\ PipelineOff
    /\ ApiOff
    /\ GuardOff
    /\ TransformOff
    /\ SemaphoreOff

ChunkerNext ==
    \/ CreateChunks /\ UNCHANGED <<transcriptionVars, flakyChunk, cacheData, stitchVars, pipelineVars, apiVars, guardVars, transformVars, semaphoreVars>>
    \/ PlanStep /\ UNCHANGED <<transcriptionVars, flakyChunk, cacheData, stitchVars, pipelineVars, apiVars, guardVars, transformVars, semaphoreVars>>
    \/ SmartCut /\ UNCHANGED <<transcriptionVars, flakyChunk, cacheData, stitchVars, pipelineVars, apiVars, guardVars, transformVars, semaphoreVars>>
    \/ UniformCut /\ UNCHANGED <<transcriptionVars, flakyChunk, cacheData, stitchVars, pipelineVars, apiVars, guardVars, transformVars, semaphoreVars>>

ChunkerSpec == ChunkerInit /\ [][ChunkerNext]_vars

\* the chunk list createChunks returned
Returned == cpc = "done"

\* ============================================ transcription (WhisperService)

\* what the external service does with one request
RetryableOutcomes == {"e5xx", "timeout", "silent"}
PermanentOutcomes == {"s400", "s413"}
ServiceOutcomes == {"ok"} \cup RetryableOutcomes \cup PermanentOutcomes
JobOutcomes == {"ok", "e5xx", "s413"}

\* error.message of the error an attempt throws: an axios error for a status
\* or a timeout, validateWhisperResponse's error for a silent failure
ErrorMessage(o) ==
    CASE o = "e5xx" -> "Request failed with status code 500"
      [] o = "timeout" -> "timeout exceeded"
      [] o = "silent" -> "Whisper API returned suspicious result"
      [] o = "hallucination" -> "Whisper API hallucination detected"
      [] o = "s400" -> "Request failed with status code 400"
      [] o = "s413" -> "Request failed with status code 413"

\* the error handed to bail()
PermanentMessage(o) ==
    IF o = "s400" THEN "Permanent error (400)" ELSE "Permanent error (413)"

IsPermanentStatus413(o) == o = "s413"
\* axios.isAxiosError(error) && (status === 400 || status === 413)
IsPermanentStatus(o) == o \in {"s400", "s413"}

RetryCountIsAttempt(n) == n
\* retryCount = attemptNumber - 1
RetryCount(n) == n - 1

\* retry(): the rejection after the last attempt is the retry operation's
\* mainError(), the collected error whose message occurred most often (the
\* later one when two messages occurred equally often)
CountUpTo(errs, i) == Cardinality({j \in 1..i : errs[j] = errs[i]})

RECURSIVE MainErrorScan(_, _, _, _)
MainErrorScan(errs, i, mainError, mainErrorCount) ==
    IF i > Len(errs) THEN mainError
    ELSE IF CountUpTo(errs, i) >= mainErrorCount
         THEN MainErrorScan(errs, i + 1, errs[i], CountUpTo(errs, i))
         ELSE MainErrorScan(errs, i + 1, mainError, mainErrorCount)

MainError(errs) == MainErrorScan(errs, 1, "none", 0)

\* response.segments of a call (attempt n of the current pass): the service
\* answers the calls of different passes with different segments
ResponseSegments(n) == batchAttempts

SuccessResult(c, retries, responseSegments) ==
    [chunkIndex |-> c, success |-> TRUE, error |-> "", retries |-> retries,
     segments |-> responseSegments]

FailureResult(c, message, retries) ==
    [chunkIndex |-> c, success |-> FALSE, error |-> message, retries |-> retries,
     segments |-> 0]

FailureCount(rs) == Cardinality({i \in 1..Len(rs) : ~rs[i].success})

CompletionOrder(rs) == rs
\* results.sort((a, b) => a.chunkIndex - b.chunkIndex)
SortByChunkIndex(rs) ==
    [i \in 1..Len(rs) |->
        rs[CHOOSE k \in 1..Len(rs) :
              Cardinality({q \in 1..Len(rs) : rs[q].chunkIndex < rs[k].chunkIndex}) = i - 1]]

\* the task of chunk c ends: results.push(result), then Semaphore.release()
\* hands the permit to the head of the wait queue or returns it
Finish(c, result) ==
    /\ results' = Append(results, result)
    /\ IF waitQueue # <<>>
       THEN /\ cst' = [cst EXCEPT ![c] = "finished", ![Head(waitQueue)] = "acquired"]
            /\ waitQueue' = Tail(waitQueue)
            /\ UNCHANGED permits
       ELSE /\ cst' = [cst EXCEPT ![c] = "finished"]
            /\ permits' = permits + 1
            /\ UNCHANGED waitQueue

\* transcribeChunks entry
TranscribeChunksCall ==
    /\ tpc = "call"
    /\ attempt' = 1
    /\ tpc' = "pass"
    /\ UNCHANGED <<whisperRev, numChunks, transcriptionAttempt, batchAttempts,
                   permits, waitQueue, cst, attemptNumber, errors, responses,
                   cache, results, chunkResults, permFailed>>

PermitAlwaysFree(c) == TRUE
\* waitForPermit, called for the c-th chunk of the pass: this.permits > 0
\* (the semaphore is new and every earlier chunk of the pass took a permit)
PermitFree(c) == c <= concurrentChunks

\* processChunksWithTracking up to Promise.all: a new semaphore, and
\* chunks.map runs every acquire(): the first concurrentChunks chunks take a
\* permit, the others queue in order
ProcessChunks ==
    /\ tpc = "pass"
    /\ tpc' = "running"
    /\ batchAttempts' = batchAttempts + 1
    /\ permits' = Max(0, concurrentChunks - numChunks)
    /\ waitQueue' = [i \in 1..Max(0, numChunks - concurrentChunks) |-> concurrentChunks + i]
    /\ cst' = [c \in ChunkIds |->
                  IF c > numChunks THEN "idle"
                  ELSE IF PermitFree(c) THEN "acquired" ELSE "waiting"]
    /\ attemptNumber' = [c \in ChunkIds |-> 0]
    /\ errors' = [c \in ChunkIds |-> <<>>]
    /\ responses' = [c \in ChunkIds |-> <<>>]
    /\ results' = <<>>
    /\ UNCHANGED <<whisperRev, numChunks, transcriptionAttempt, attempt, cache,
                   chunkResults, permFailed>>

CacheNeverHit(c) == FALSE
\* fs.existsSync(cacheFile) and the file parses
CacheHit(c) == cache[c] = "valid"

\* transcribeChunk before retry(): a readable cache file is the result, a
\* corrupt one is removed
TranscribeChunk(c) ==
    /\ tpc = "running"
    /\ cst[c] = "acquired"
    /\ IF CacheHit(c)
       THEN /\ Finish(c, SuccessResult(c, 0, cacheData[c]))
            /\ UNCHANGED <<cache, cacheData>>
       ELSE /\ cst' = [cst EXCEPT ![c] = "retrying"]
            /\ cache' = [cache EXCEPT ![c] = "none"]
            /\ cacheData' = [cacheData EXCEPT ![c] = 0]
            /\ UNCHANGED <<results, waitQueue, permits>>
    /\ UNCHANGED <<whisperRev, numChunks, tpc, transcriptionAttempt, attempt,
                   batchAttempts, attemptNumber, errors, responses,
                   chunkResults, permFailed>>

\* one attempt of retry(): callWhisperAPI answers o
Attempt(c, o) ==
    /\ tpc = "running"
    /\ cst[c] = "retrying"
    /\ LET n == attemptNumber[c] + 1
           retryCount == RetryCount(n)
           errs == Append(errors[c], ErrorMessage(o))
       IN /\ attemptNumber' = [attemptNumber EXCEPT ![c] = n]
          /\ responses' = [responses EXCEPT ![c] = Append(@, o)]
          /\ IF o = "ok"
             THEN /\ cache' = [cache EXCEPT ![c] = "valid"]
                  /\ cacheData' = [cacheData EXCEPT ![c] = ResponseSegments(n)]
                  /\ Finish(c, SuccessResult(c, retryCount, ResponseSegments(n)))
                  /\ UNCHANGED <<errors, permFailed>>
             ELSE IF IsPermanentStatus(o)
             THEN /\ Finish(c, FailureResult(c, PermanentMessage(o), retryCount))
                  /\ permFailed' = permFailed \cup {c}
                  /\ UNCHANGED <<errors, cache, cacheData>>
             ELSE /\ errors' = [errors EXCEPT ![c] = errs]
                  /\ IF n <= maxRetries
                     THEN UNCHANGED <<results, cst, waitQueue, permits>>
                     ELSE Finish(c, FailureResult(c, MainError(errs), retryCount))
                  /\ UNCHANGED <<cache, cacheData, permFailed>>
    /\ UNCHANGED <<whisperRev, numChunks, tpc, transcriptionAttempt, attempt,
                   batchAttempts, chunkResults>>

AllFinished == \A c \in 1..numChunks : cst[c] = "finished"

\* after Promise.all: the single-pass revision returns the sorted results;
\* the tracking revision returns them when nothing failed, else counts the
\* global attempt and goes round again or throws
CollectResults ==
    /\ tpc = "running"
    /\ AllFinished
    /\ IF whisperRev = "single" \/ FailureCount(results) = 0
       THEN /\ chunkResults' = SortByChunkIndex(results)
            /\ tpc' = "returned"
            /\ UNCHANGED attempt
       ELSE /\ attempt' = attempt + 1
            /\ tpc' = IF attempt + 1 <= maxGlobalRetries THEN "pass" ELSE "threw"
            /\ UNCHANGED chunkResults
    /\ UNCHANGED <<whisperRev, numChunks, transcriptionAttempt, batchAttempts,
                   permits, waitQueue, cst, attemptNumber, errors, responses,
                   cache, results, permFailed>>

\* transcribeAudio: what the retry loop does with the outcome of
\* transcribeChunks
HandleTranscription ==
    /\ tpc \in {"returned", "threw"}
    /\ IF tpc = "returned" /\ FailureCount(chunkResults) = 0
       THEN /\ tpc' = "transcribed"
            /\ UNCHANGED transcriptionAttempt
       ELSE IF transcriptionAttempt >= maxTranscriptionRetries
       THEN /\ tpc' = "jobFailed"
            /\ UNCHANGED transcriptionAttempt
       ELSE /\ transcriptionAttempt' = transcriptionAttempt + 1
            /\ tpc' = "call"
    /\ UNCHANGED <<whisperRev, numChunks, attempt, batchAttempts, permits,
                   waitQueue, cst, attemptNumber, errors, responses, cache,
                   results, chunkResults, permFailed>>

\* a job entering its transcription phase
JobInit ==
    /\ ChunkerOff
    /\ StitchOff
    /\ PipelineOff
    /\ ApiOff
    /\ GuardOff
    /\ TransformOff
    /\ SemaphoreOff
    /\ whisperRev \in {"tracking", "single"}
    /\ numChunks \in 1..MaxChunks
    /\ tpc = "call"
    /\ transcriptionAttempt = 1
    /\ attempt = 1
    /\ batchAttempts = 0
    /\ permits = concurrentChunks
    /\ waitQueue = <<>>
    /\ cst = [c \in ChunkIds |-> "idle"]
    /\ attemptNumber = [c \in ChunkIds |-> 0]
    /\ errors = [c \in ChunkIds |-> <<>>]
    /\ responses = [c \in ChunkIds |-> <<>>]
    /\ cache = [c \in ChunkIds |-> "none"]
    /\ results = <<>>
    /\ chunkResults = <<>>
    /\ permFailed = {}
    /\ flakyChunk = 0
    /\ cacheData = [c \in ChunkIds |-> 0]

JobNext ==
    \/ TranscribeChunksCall /\ UNCHANGED <<chunkerVars, stitchVars, pipelineVars, apiVars, flakyChunk, cacheData, guardVars, transformVars, semaphoreVars>>
    \/ ProcessChunks /\ UNCHANGED <<chunkerVars, stitchVars, pipelineVars, apiVars, flakyChunk, cacheData, guardVars, transformVars, semaphoreVars>>
    \/ \E c \in ChunkIds : TranscribeChunk(c) /\ UNCHANGED <<chunkerVars, stitchVars, pipelineVars, apiVars, flakyChunk, guardVars, transformVars, semaphoreVars>>
    \/ \E c \in ChunkIds, o \in JobOutcomes : Attempt(c, o) /\ UNCHANGED <<chunkerVars, stitchVars, pipelineVars, apiVars, flakyChunk, guardVars, transformVars, semaphoreVars>>
    \/ CollectResults /\ UNCHANGED <<chunkerVars, stitchVars, pipelineVars, apiVars, flakyChunk, cacheData, guardVars, transformVars, semaphoreVars>>
    \/ HandleTranscription /\ UNCHANGED <<chunkerVars, stitchVars, pipelineVars, apiVars, flakyChunk, cacheData, guardVars, transformVars, semaphoreVars>>

Spec == JobInit /\ [][JobNext]_vars

\* one transcribeChunks call of the single-pass revision: the service answers
\* the requests of one chunk of the batch in any way and those of the others
\* with a valid response; that chunk's cache file is in any state
RetryInit ==
    /\ ChunkerOff
    /\ StitchOff
    /\ PipelineOff
    /\ ApiOff
    /\ GuardOff
    /\ TransformOff
    /\ SemaphoreOff
    /\ whisperRev = "single"
    /\ numChunks \in 1..MaxChunks
    /\ tpc = "pass"
    /\ transcriptionAttempt = 1
    /\ attempt = 1
    /\ batchAttempts = 0
    /\ permits = concurrentChunks
    /\ waitQueue = <<>>
    /\ cst = [c \in ChunkIds |-> "idle"]
    /\ attemptNumber = [c \in ChunkIds |-> 0]
    /\ errors = [c \in ChunkIds |-> <<>>]
    /\ responses = [c \in ChunkIds |-> <<>>]
    /\ flakyChunk \in 1..numChunks
    /\ cacheData = [c \in ChunkIds |-> 0]
    /\ cache \in [ChunkIds -> {"none", "valid", "corrupt"}]
    /\ \A c \in ChunkIds : c # flakyChunk => cache[c] = "none"
    /\ results = <<>>
    /\ chunkResults = <<>>
    /\ permFailed = {}

RetryNext ==
    \/ ProcessChunks /\ UNCHANGED <<chunkerVars, stitchVars, pipelineVars, apiVars, flakyChunk, cacheData, guardVars, transformVars, semaphoreVars>>
    \/ \E c \in ChunkIds : TranscribeChunk(c) /\ UNCHANGED <<chunkerVars, stitchVars, pipelineVars, apiVars, flakyChunk, guardVars, transformVars, semaphoreVars>>
    \/ \E c \in ChunkIds, o \in ServiceOutcomes :
          /\ c = flakyChunk \/ o = "ok"
          /\ Attempt(c, o)
          /\ UNCHANGED <<chunkerVars, stitchVars, pipelineVars, apiVars, flakyChunk, guardVars, transformVars, semaphoreVars>>
    \/ CollectResults /\ UNCHANGED <<chunkerVars, stitchVars, pipelineVars, apiVars, flakyChunk, cacheData, guardVars, transformVars, semaphoreVars>>

RetrySpec == RetryInit /\ [][RetryNext]_vars

\* ------------------------------------------------------- chunker claims

\* C1: in every chunk list createChunks returns, the first chunk starts at 0
\* and each chunk ends exactly where the next one starts (no gap, no overlap).
C1_Contiguous ==
    Returned =>
        /\ (Len(chunks) > 0 => chunks[1].startTime = 0)
        /\ \A i \in 1..(Len(chunks) - 1) :
               chunks[i].startTime + chunks[i].duration = chunks[i + 1].startTime

\* a returned list of several chunks whose first boundary was snapped to a silence
C1_Witness ==
    /\ Returned
    /\ chunkerRev = "smart"
    /\ Len(chunks) >= 2
    /\ plans[1].usedSilence
    /\ plans[1].actualEnd # plans[1].targetEnd

\* C2: in every chunk list createChunks returns, the chunk durations add up to
\* the original duration.
C2_SumEqualsOriginal ==
    Returned => SumDurations(chunks, 1) = originalDuration

\* C3: every returned chunk lasts at most 20 minutes on the accelerated
\* timeline (duration / F <= 1200 s).
C3_AcceleratedCap ==
    Returned =>
        \A i \in 1..Len(chunks) :
            chunks[i].duration * 10 <= maxChunkDurationAccelerated * speedFactor

HasResult(c) == \E i \in 1..Len(results) : results[i].chunkIndex = c
ResultOf(c) == results[CHOOSE i \in 1..Len(results) : results[i].chunkIndex = c]

\* the service answered the first n calls for chunk c with retryable errors
FailedRetryably(c, n) ==
    /\ n <= Len(responses[c])
    /\ \A i \in 1..n : responses[c][i] \in RetryableOutcomes

RECURSIVE CallsUpTo(_)
CallsUpTo(c) == IF c = 0 THEN 0 ELSE attemptNumber[c] + CallsUpTo(c - 1)

\* service calls made in the current pass
TotalCalls == CallsUpTo(numChunks)

\* C5: when the service answers a chunk's calls with N < R (here: N <= R) retryable failures
\* and then a valid response, transcribeChunk ends in success with retries = N
\* after exactly N+1 calls: it neither gives up before the valid response nor
\* calls again after it; three chunks of which one fails twice cost 5 calls.
C5_RetryThenSuccess ==
    /\ \A c \in 1..numChunks :
        LET log == responses[c]
            N == Len(log) - 1
        IN /\ \A i \in 1..N : log[i] # "ok"
           /\ (cst[c] = "finished" /\ FailedRetryably(c, Len(log)) /\ Len(log) > 0)
                  => Len(log) > maxRetries
           /\ (cst[c] = "finished" /\ N >= 0 /\ N <= maxRetries
                 /\ FailedRetryably(c, N) /\ log[N + 1] = "ok")
                  => /\ HasResult(c)
                     /\ ResultOf(c).success
                     /\ ResultOf(c).retries = N
                     /\ attemptNumber[c] = N + 1
    /\ (AllFinished /\ numChunks = 3
          /\ \E c \in 1..3 :
                /\ Len(responses[c]) = 3 /\ FailedRetryably(c, 2) /\ responses[c][3] = "ok"
                /\ \A d \in (1..3) \ {c} : responses[d] = <<"ok">>)
           => TotalCalls = 5

C5_Witness ==
    /\ tpc = "returned"
    /\ numChunks = 3
    /\ responses[1] = <<"ok">>
    /\ responses[2] = <<"e5xx", "timeout", "ok">>
    /\ responses[3] = <<"ok">>
    /\ chunkResults[2].success
    /\ chunkResults[2].retries = 2
    /\ TotalCalls = 5

\* C6: one transcribeChunk makes at most R+1 attempts, and when all R+1 fail
\* with retryable errors it returns a result with success = false, the error
\* message of the last attempt and retries = R.
C6_ExhaustionReturnsLastError ==
    \A c \in 1..numChunks :
        /\ attemptNumber[c] <= maxRetries + 1
        /\ Len(responses[c]) <= maxRetries + 1
        /\ (cst[c] = "finished" /\ FailedRetryably(c, maxRetries + 1))
              => /\ HasResult(c)
                 /\ ~ResultOf(c).success
                 /\ ResultOf(c).error = ErrorMessage(responses[c][maxRetries + 1])
                 /\ ResultOf(c).retries = maxRetries

\* C7: an attempt answered with status 400 or 413 is the last attempt of that
\* transcribeChunk, which returns success = false with retries = the number
\* of attempts made before it.
C7_PermanentStopsRetry ==
    \A c \in 1..numChunks :
        \A i \in 1..Len(responses[c]) :
            responses[c][i] \in PermanentOutcomes
               => /\ i = Len(responses[c])
                  /\ attemptNumber[c] = i
                  /\ cst[c] = "finished"
                  /\ HasResult(c)
                  /\ ~ResultOf(c).success
                  /\ ResultOf(c).retries = i - 1

C7_Witness ==
    /\ tpc = "returned"
    /\ numChunks >= 2
    /\ responses[1] = <<"ok">>
    /\ responses[2] = <<"e5xx", "s400">>
    /\ chunkResults[2].retries = 1
    /\ ~chunkResults[2].success

\* C8: once a chunk has failed with status 400 or 413, no later step of the
\* job submits that chunk to the service again.
C8_PermanentNeverResubmitted ==
    [][\A c \in ChunkIds :
          c \in permFailed => attemptNumber'[c] # attemptNumber[c] + 1]_vars

\* C9: a job makes at most G = 3 passes over its chunk set in total, and a
\* pass after the first starts only when the previous one left a failed chunk.
C9_AtMostGGlobalAttempts ==
    [][/\ batchAttempts' <= maxGlobalRetries
       /\ (batchAttempts' > batchAttempts /\ batchAttempts >= 1)
             => FailureCount(results) > 0]_vars

\* C10: when failed chunks remain after the last global attempt,
\* transcribeChunks returns the partial result set, one result per chunk, and
\* does not throw.
C10_PartialResultsReturned ==
    (tpc \in {"returned", "threw"} /\ FailureCount(results) > 0)
       => /\ tpc = "returned"
          /\ Len(chunkResults) = numChunks
          /\ \A c \in 1..numChunks : chunkResults[c].chunkIndex = c
          /\ FailureCount(chunkResults) = FailureCount(results)

\* C11: once a chunk's cache file holds a successful transcription, no later
\* step of the job calls the service for that chunk, the file keeps its
\* segments, and every transcribeChunk of that chunk returns success with
\* exactly those segments; so a later pass calls the service only for chunks
\* that have not succeeded yet.
C11_CacheHitNoCall ==
    [][/\ \A c \in ChunkIds :
            cache[c] = "valid"
               => /\ attemptNumber'[c] # attemptNumber[c] + 1
                  /\ cache'[c] = "valid"
                  /\ cacheData'[c] = cacheData[c]
                  /\ (cst[c] = "acquired" /\ cst'[c] = "finished")
                        => /\ Len(results') = Len(results) + 1
                           /\ results'[Len(results')].chunkIndex = c
                           /\ results'[Len(results')].success
                           /\ results'[Len(results')].segments = cacheData[c]
       /\ \A i \in 1..Len(results') :
            results'[i].success
               => /\ cache'[results'[i].chunkIndex] = "valid"
                  /\ results'[i].segments = cacheData'[results'[i].chunkIndex]]_vars

C11_Witness ==
    /\ tpc = "returned"
    /\ batchAttempts = 2
    /\ numChunks = 2
    /\ responses[1] = <<>>
    /\ attemptNumber[1] = 0
    /\ chunkResults[1].success
    /\ chunkResults[1].segments = cacheData[1]
    /\ cacheData[1] = 1
    /\ responses[2] = <<"e5xx", "ok">>
    /\ chunkResults[2].success

\* the chunks whose task holds a permit: transcribeChunk is in flight
InFlight == {c \in 1..numChunks : cst[c] \in {"acquired", "retrying"}}

\* C12: at every moment of a pass at most P = concurrentChunks chunks have a
\* transcribeChunk in flight, whatever the number of chunks and the order of
\* completions and failures (and the permits not in flight are free ones).
C12_AtMostPInFlight ==
    /\ Cardinality(InFlight) <= concurrentChunks
    /\ tpc = "running" => Cardinality(InFlight) + permits = concurrentChunks
    /\ \A i \in 1..Len(waitQueue) : cst[waitQueue[i]] = "waiting"

C12_Witness ==
    /\ tpc = "running"
    /\ numChunks > concurrentChunks
    /\ Cardinality(InFlight) = concurrentChunks
    /\ FailureCount(results) > 0
    /\ cst[numChunks] \in {"acquired", "retrying"}

-----------------------------------------------------------------------------
\* TranscriptionService.processChunkResults and the end of transcribeAudio.
\* Times are in ms; a text is the sequence of its characters.

\* String.prototype.trim: the text without leading and trailing blanks
RECURSIVE TrimStart(_)
TrimStart(t) ==
    IF t = <<>> THEN <<>>
    ELSE IF Head(t) = " " THEN TrimStart(Tail(t)) ELSE t

RECURSIVE TrimEnd(_)
TrimEnd(t) ==
    IF t = <<>> THEN <<>>
    ELSE IF t[Len(t)] = " " THEN TrimEnd(SubSeq(t, 1, Len(t) - 1)) ELSE t

Trim(t) == TrimEnd(TrimStart(t))

\* a segment of a service response: times in the accelerated timeline
ServiceSegment(s, e, t) == [start |-> s, end |-> e, text |-> t]

\* the texts the service answers with
ServiceTexts == {<<" ", "A">>, <<" ", "B">>, <<" ">>}
OpeningTexts == {<<" ", "A">>, <<" ", "C">>}
ClosingTexts == {<<" ", "A">>, <<" ", "D">>}

\* the responses of the service: three or four segments in time order, the
\* last one possibly ending after the end of a 5 s chunk
ServiceResponses ==
    { <<ServiceSegment(0, 100, o)>> \o <<ServiceSegment(100, 2000, <<"A">>)>>
         \o <<ServiceSegment(2000, 4000, t)>> \o d :
        o \in OpeningTexts,
        t \in ServiceTexts,
        d \in {<<>>} \cup {<<ServiceSegment(4800, 5200, c)>> : c \in ClosingTexts} }

\* chunk durations in the original timeline
StitchDurations == {10000, 130000}

\* what transcribeChunk returns for one chunk, before its place in the
\* timeline is known
ChunkOutcomes ==
    [success : {TRUE}, segments : ServiceResponses, chunkDuration : StitchDurations]
        \cup [success : {FALSE}, segments : {<<>>}, chunkDuration : StitchDurations]

RECURSIVE StartOfChunk(_, _)
StartOfChunk(outcomes, i) ==
    IF i = 1 THEN 0
    ELSE StartOfChunk(outcomes, i - 1) + outcomes[i - 1].chunkDuration

\* the ChunkResult list of contiguous chunks with the given outcomes
ChunkResultsOf(outcomes) ==
    [i \in 1..Len(outcomes) |->
        [chunkIndex     |-> i,
         success        |-> outcomes[i].success,
         segments       |-> outcomes[i].segments,
         chunkStartTime |-> StartOfChunk(outcomes, i),
         chunkDuration  |-> outcomes[i].chunkDuration]]

\* the inputs of n chunks
StitchInputs(n) == { ChunkResultsOf(o) : o \in [1..n -> ChunkOutcomes] }

\* (segment.start * speedFactor) + chunkStartTime, speedFactor in tenths
UncorrectedTime(t, factor, chunkStartTime) == t + chunkStartTime

CorrectedTime(t, factor, chunkStartTime) == ((t * factor) \div 10) + chunkStartTime

CorrectedSegment(segment, index, factor, chunkStartTime) ==
    [index |-> index,
     start |-> CorrectedTime(segment.start, factor, chunkStartTime),
     end   |-> CorrectedTime(segment.end, factor, chunkStartTime),
     text  |-> Trim(segment.text)]

\* segments.slice(-3).some(lastSeg => lastSeg.text === correctedSegment.text)
IsConsecutiveDuplicate(segs, text) ==
    /\ Len(segs) >= 1
    /\ \E i \in Max(1, Len(segs) - 2)..Len(segs) : segs[i].text = text

Warning(kind, chunk) == [kind |-> kind, chunk |-> chunk]

\* the warning of a failed chunk: it names the chunk's span
FailureWarning(i, result) ==
    [kind |-> "FAILED_CHUNK", chunk |-> i,
     from |-> result.chunkStartTime,
     to |-> result.chunkStartTime + result.chunkDuration]

NoGapWarnings(i, chunkStartTime, lastEnd) == <<>>
\* the continuity check at the head of the loop body
GapWarnings(i, chunkStartTime, lastEnd) ==
    IF i > 1 /\ Abs(chunkStartTime - lastEnd) > gapTolerance
    THEN <<Warning(IF chunkStartTime - lastEnd > 0 THEN "GAP" ELSE "OVERLAP", i)>>
    ELSE <<>>

\* processChunkResults is entered: the locals are set and the results sorted
ProcessChunkResults ==
    /\ spc = "sort"
    /\ sortedResults' = SortByChunkIndex(stitchInput)
    /\ segments' = <<>>
    /\ warnings' = <<>>
    /\ segmentIndex' = 1
    /\ lastEndTime' = 0
    /\ resultIdx' = 1
    /\ spc' = "chunk"
    /\ UNCHANGED <<stitchInput, segIdx, emittedFrom, skipped, jobStatus>>

\* the head of one loop iteration: the continuity check, and for a failed
\* chunk the whole else branch
StitchChunk ==
    /\ spc = "chunk"
    /\ resultIdx <= Len(sortedResults)
    /\ LET result == sortedResults[resultIdx]
           gapWarnings == GapWarnings(resultIdx, result.chunkStartTime, lastEndTime)
       IN  IF result.success
           THEN /\ warnings' = warnings \o gapWarnings
                /\ IF Len(result.segments) > 0
                   THEN /\ spc' = "segment"
                        /\ segIdx' = 1
                        /\ UNCHANGED resultIdx
                   ELSE /\ resultIdx' = resultIdx + 1
                        /\ UNCHANGED <<spc, segIdx>>
                /\ UNCHANGED lastEndTime
           ELSE /\ lastEndTime' = Max(lastEndTime, result.chunkStartTime + result.chunkDuration)
                /\ warnings' = warnings \o gapWarnings \o <<FailureWarning(resultIdx, result)>>
                /\ resultIdx' = resultIdx + 1
                /\ UNCHANGED <<spc, segIdx>>
    /\ UNCHANGED <<stitchInput, sortedResults, segments, segmentIndex, emittedFrom,
                   skipped, jobStatus>>

\* one iteration of the inner loop over result.segments
StitchSegment ==
    /\ spc = "segment"
    /\ LET result == sortedResults[resultIdx]
           correctedSegment == CorrectedSegment(result.segments[segIdx], segmentIndex,
                                                speedFactor, result.chunkStartTime)
       IN  /\ IF correctedSegment.text # <<>>
              THEN IF IsConsecutiveDuplicate(segments, correctedSegment.text)
                   THEN /\ segmentIndex' = (segmentIndex + 1) - 1
                        /\ skipped' = skipped \cup {<<resultIdx, segIdx>>}
                        /\ UNCHANGED <<segments, lastEndTime, emittedFrom>>
                   ELSE /\ segmentIndex' = segmentIndex + 1
                        /\ segments' = Append(segments, correctedSegment)
                        /\ lastEndTime' = Max(lastEndTime, correctedSegment.end)
                        /\ emittedFrom' = Append(emittedFrom, <<resultIdx, segIdx>>)
                        /\ UNCHANGED skipped
              ELSE /\ segmentIndex' = segmentIndex + 1
                   /\ UNCHANGED <<segments, lastEndTime, emittedFrom, skipped>>
           /\ IF segIdx < Len(result.segments)
              THEN /\ segIdx' = segIdx + 1
                   /\ UNCHANGED <<spc, resultIdx>>
              ELSE /\ spc' = "chunk"
                   /\ resultIdx' = resultIdx + 1
                   /\ UNCHANGED segIdx
    /\ UNCHANGED <<stitchInput, sortedResults, warnings, jobStatus>>

\* the quality gate after the loop
TotalExpectedDuration(rs) ==
    IF rs = <<>> THEN 0 ELSE rs[Len(rs)].chunkStartTime + rs[Len(rs)].chunkDuration

HasSignificantGaps(rs, lastEnd) ==
    Abs(lastEnd - TotalExpectedDuration(rs)) > maxAcceptableGap

HasLowSegmentDensity(rs, segs) ==
    Len(segs) * densityWindow < TotalExpectedDuration(rs)

HasHighFailureRate(rs) ==
    Len(rs) > 0 /\ FailureCount(rs) * 10 > 3 * Len(rs)

QualityGate ==
    /\ spc = "chunk"
    /\ resultIdx > Len(sortedResults)
    /\ warnings' =
          IF \/ HasSignificantGaps(sortedResults, lastEndTime)
             \/ HasLowSegmentDensity(sortedResults, segments)
             \/ HasHighFailureRate(sortedResults)
          THEN Append(warnings, Warning("QUALITY_ALERT", 0))
          ELSE warnings
    /\ spc' = "returned"
    /\ UNCHANGED <<stitchInput, sortedResults, resultIdx, segIdx, segments, segmentIndex,
                   lastEndTime, emittedFrom, skipped, jobStatus>>

\* job.status as transcribeAudio sets it once the stitcher has returned
JobStatus(ws) == "completed"

\* transcribeAudio after processChunkResults: the empty-transcript check, the
\* job record, the output files (writing them can fail) and the final
\* validation; the call is only reached with every chunk transcribed
FinishJob ==
    /\ spc = "returned"
    /\ FailureCount(stitchInput) = 0
    /\ \E filesWritten \in BOOLEAN :
          jobStatus' = IF Len(segments) = 0 \/ ~filesWritten
                       THEN "failed"
                       ELSE JobStatus(warnings)
    /\ spc' = "finished"
    /\ UNCHANGED <<stitchInput, sortedResults, resultIdx, segIdx, segments, warnings,
                   segmentIndex, lastEndTime, emittedFrom, skipped>>

StitchSpeeds == {10, 20}

StitchInit ==
    /\ chunkerRev = "smart"
    /\ speedFactor \in StitchSpeeds \cup {maxSpeed}
    /\ originalDuration = 0
    /\ originalSizeBytes = 0
    /\ encodedRate = 0
    /\ silences = <<>>
    /\ cpc = "off"
    /\ plans = <<>>
    /\ currentStart = 0
    /\ chunkIndex = 0
    /\ attemptDuration = 0
    /\ chunks = <<>>
    /\ sizeWarnings = {}
    /\ TranscriptionOff
    /\ \E n \in 1..MaxStitchChunks : stitchInput \in StitchInputs(n)
    /\ spc = "sort"
    /\ sortedResults = <<>>
    /\ resultIdx = 0
    /\ segIdx = 0
    /\ segments = <<>>
    /\ warnings = <<>>
    /\ segmentIndex = 1
    /\ lastEndTime = 0
    /\ emittedFrom = <<>>
    /\ skipped = {}
    /\ jobStatus = "processing"
    /\ PipelineOff
    /\ ApiOff
    /\ GuardOff
    /\ TransformOff
    /\ SemaphoreOff

StitchNext ==
    \/ ProcessChunkResults /\ UNCHANGED <<chunkerVars, transcriptionVars, flakyChunk, cacheData, pipelineVars, apiVars, guardVars, transformVars, semaphoreVars>>
    \/ StitchChunk /\ UNCHANGED <<chunkerVars, transcriptionVars, flakyChunk, cacheData, pipelineVars, apiVars, guardVars, transformVars, semaphoreVars>>
    \/ StitchSegment /\ UNCHANGED <<chunkerVars, transcriptionVars, flakyChunk, cacheData, pipelineVars, apiVars, guardVars, transformVars, semaphoreVars>>
    \/ QualityGate /\ UNCHANGED <<chunkerVars, transcriptionVars, flakyChunk, cacheData, pipelineVars, apiVars, guardVars, transformVars, semaphoreVars>>
    \/ FinishJob /\ UNCHANGED <<chunkerVars, transcriptionVars, flakyChunk, cacheData, pipelineVars, apiVars, guardVars, transformVars, semaphoreVars>>

StitchSpec == StitchInit /\ [][StitchNext]_vars

\* --------------------------------------------------------------------- C14
\* the service segment an emitted segment was made from, and its chunk
SourceChunk(k) == sortedResults[emittedFrom[k][1]]
SourceSegment(k) == SourceChunk(k).segments[emittedFrom[k][2]]

\* C14: every emitted segment that comes from service segment (s, e, text) of
\* a successful chunk starting at T in the original timeline has
\* start = s*F + T and end = e*F + T, F being the speed factor.
C14_TimestampsCorrected ==
    /\ Len(emittedFrom) = Len(segments)
    /\ \A k \in 1..Len(segments) :
          /\ SourceChunk(k).success
          /\ segments[k].start * 10
                = SourceSegment(k).start * speedFactor + SourceChunk(k).chunkStartTime * 10
          /\ segments[k].end * 10
                = SourceSegment(k).end * speedFactor + SourceChunk(k).chunkStartTime * 10

\* a second chunk starting at T = 130 s behind a transcribed first one, at
\* F = 2.0: its segment (2 s, 4 s) of the accelerated timeline is emitted as
\* (134 s, 138 s)
C14_Witness ==
    /\ spc = "returned"
    /\ speedFactor = 20
    /\ Len(sortedResults) = 2
    /\ sortedResults[1].success
    /\ sortedResults[2].chunkStartTime = 130000
    /\ \E k \in 1..Len(segments) :
          /\ emittedFrom[k][1] = 2
          /\ SourceSegment(k).start = 2000
          /\ SourceSegment(k).end = 4000
          /\ segments[k].start = 134000
          /\ segments[k].end = 138000

\* --------------------------------------------------------------------- C15
\* C15: in the stitched transcript segment start times are non-decreasing in
\* output order, segment end times are non-decreasing in output order, and no
\* segment has end < start.
C15_TimesMonotone ==
    /\ \A k \in 1..Len(segments) : segments[k].end >= segments[k].start
    /\ \A k \in 2..Len(segments) :
          /\ segments[k].start >= segments[k - 1].start
          /\ segments[k].end >= segments[k - 1].end

\* --------------------------------------------------------------------- C16
\* C16: the stitched segments carry the indices 1..K with no gap and no
\* repeat, K being the number of emitted segments, also when service segments
\* are dropped for empty text or as consecutive duplicates.
C16_IndicesContiguous ==
    \A k \in 1..Len(segments) : segments[k].index = k

\* --------------------------------------------------------------------- C17
\* C17: a service segment whose trimmed text equals the text of one of the
\* last three emitted segments is skipped, and a warning for it is added to
\* the returned warnings list (for a response [A, A, A, A]: at most one A in
\* the transcript and a hallucination warning present).
C17_DuplicateSkippedWithWarning ==
    /\ \A k \in 1..Len(segments) :
          \A j \in Max(1, k - 3)..(k - 1) : segments[j].text # segments[k].text
    /\ \A sk \in skipped :
          \E i \in 1..Len(warnings) :
             /\ warnings[i].kind \notin {"GAP", "OVERLAP", "FAILED_CHUNK", "QUALITY_ALERT"}
             /\ warnings[i].chunk = sk[1]

\* --------------------------------------------------------------------- C18
HasQualityAlert(ws) == \E i \in 1..Len(ws) : ws[i].kind = "QUALITY_ALERT"

\* C18: the status of a finished job is completed only if zero chunks failed
\* and no QUALITY_ALERT warning was emitted; it is completed_with_warnings
\* when the stitcher emitted any warning while a segment list exists; it is
\* failed otherwise.
C18_StatusReflectsWarnings ==
    spc = "finished" =>
       /\ jobStatus \in {"completed", "completed_with_warnings", "failed"}
       /\ jobStatus = "completed"
             => /\ FailureCount(sortedResults) = 0
                /\ ~HasQualityAlert(warnings)
                /\ warnings = <<>>
       /\ jobStatus = "completed_with_warnings"
             => /\ warnings # <<>>
                /\ segments # <<>>

-----------------------------------------------------------------------------
\* TranscriptionService.transcribeAudio from its try block to the timer its
\* finally block sets. The transcription phase is the WhisperService model
\* above; chunking is reduced to the number of chunks it yields and stitching
\* to whether it yields segments (ChunkerSpec and StitchSpec hold the detail).

\* originalDuration / speedFactor, speedFactor in tenths
ExpectedAcceleratedDuration(original, factor) == (original * 10) \div factor

\* what ffprobe reports for the processed file: the expected duration, or a
\* fifth less
ActualDurationChoices(expected) == {expected, (expected * 4) \div 5}

\* validateProcessedAudio: accuracyPercent >= 95, and neither duplicated nor
\* truncated
AnyProcessedAudio(actual, expected) == TRUE

IsValidProcessedAudio(actual, expected) ==
    /\ Abs(actual - expected) * 100 <= 5 * expected
    /\ actual * 10 <= expected * 19
    /\ actual * 2 >= expected

\* setTimeout callbacks run once their delay has passed
TimerDueAtOnce(elapsed) == elapsed >= 0

TimerDue(elapsed) == elapsed >= cleanupDelay

\* the catch block (on a failure) and the finally block: the job has its
\* terminal outcome and the cleanup timer is set
EndJob(status) ==
    /\ jpc' = status
    /\ cleanupScheduled' = cleanupScheduled + 1
    /\ timerElapsed' = 0
    /\ UNCHANGED <<cleanupRuns, tempDir>>

\* phase 1: audioProcessor.processAudio with its post-validation
ProcessAudio ==
    /\ jpc = "transform"
    /\ phaseLog' = Append(phaseLog, "transform")
    /\ \E ffmpegRan \in BOOLEAN :
       \E actual \in ActualDurationChoices(ExpectedAcceleratedDuration(originalDuration, speedFactor)) :
          IF ffmpegRan /\ IsValidProcessedAudio(actual,
                             ExpectedAcceleratedDuration(originalDuration, speedFactor))
          THEN /\ processedDuration' = actual
               /\ jpc' = "chunk"
               /\ UNCHANGED <<cleanupScheduled, timerElapsed, cleanupRuns, tempDir>>
          ELSE /\ processedDuration' = IF ffmpegRan THEN actual ELSE 0
               /\ EndJob("failed")
    /\ UNCHANGED <<chunkerVars, transcriptionVars, flakyChunk, cacheData, stitchVars, apiVars,
                   stitched, outputWritten, guardVars, transformVars, semaphoreVars>>

\* phase 2: audioProcessor.createChunks
CreateChunksPhase ==
    /\ jpc = "chunk"
    /\ phaseLog' = Append(phaseLog, "chunk")
    /\ \/ \E n \in 1..MaxJobChunks :
             /\ numChunks' = n
             /\ jpc' = "transcribe"
             /\ UNCHANGED <<cleanupScheduled, timerElapsed, cleanupRuns, tempDir>>
       \/ /\ EndJob("failed")
          /\ UNCHANGED numChunks
    /\ UNCHANGED <<whisperRev, tpc, transcriptionAttempt, attempt, batchAttempts, permits,
                   waitQueue, cst, attemptNumber, errors, responses, cache, results,
                   chunkResults, permFailed>>
    /\ UNCHANGED <<chunkerVars, flakyChunk, cacheData, stitchVars, apiVars, processedDuration, stitched, outputWritten, guardVars, transformVars, semaphoreVars>>

\* phase 3 begins: the retry loop around whisperService.transcribeChunks
StartTranscription ==
    /\ jpc = "transcribe"
    /\ tpc = "off"
    /\ phaseLog' = Append(phaseLog, "transcribe")
    /\ tpc' = "call"
    /\ UNCHANGED <<whisperRev, numChunks, transcriptionAttempt, attempt, batchAttempts,
                   permits, waitQueue, cst, attemptNumber, errors, responses, cache,
                   results, chunkResults, permFailed>>
    /\ UNCHANGED <<chunkerVars, flakyChunk, cacheData, stitchVars, apiVars, jpc, cleanupScheduled,
                   timerElapsed, cleanupRuns, tempDir, processedDuration, stitched, outputWritten, guardVars, transformVars, semaphoreVars>>

\* phase 3 gave up: the loop threw after its last attempt
TranscriptionFailed ==
    /\ jpc = "transcribe"
    /\ tpc = "jobFailed"
    /\ EndJob("failed")
    /\ UNCHANGED <<chunkerVars, transcriptionVars, flakyChunk, cacheData, stitchVars, apiVars,
                   phaseLog, processedDuration, stitched, outputWritten, guardVars, transformVars, semaphoreVars>>

\* segments.length === 0 throws 'Nenhum segmento final foi gerado'
AnyStitchResult(stitchResult) == TRUE

HasFinalSegments(stitchResult) == stitchResult = "segments"

\* phase 4: processChunkResults and the empty-transcript check
TimestampCorrection ==
    /\ jpc = "transcribe"
    /\ tpc = "transcribed"
    /\ phaseLog' = Append(phaseLog, "stitch")
    /\ \E stitchResult \in {"segments", "none"} :
          /\ stitched' = stitchResult
          /\ IF HasFinalSegments(stitchResult)
             THEN /\ jpc' = "emit"
                  /\ UNCHANGED <<cleanupScheduled, timerElapsed, cleanupRuns, tempDir>>
             ELSE EndJob("failed")
    /\ UNCHANGED <<chunkerVars, transcriptionVars, flakyChunk, cacheData, stitchVars, apiVars,
                   processedDuration, outputWritten, guardVars, transformVars, semaphoreVars>>

\* phase 5: the output files, the final validation and the return
GenerateOutput ==
    /\ jpc = "emit"
    /\ phaseLog' = Append(phaseLog, "emit")
    /\ \E written \in BOOLEAN, finished \in BOOLEAN :
          /\ finished => written
          /\ outputWritten' = written
          /\ EndJob(IF finished THEN "completed" ELSE "failed")
    /\ UNCHANGED <<chunkerVars, transcriptionVars, flakyChunk, cacheData, stitchVars, apiVars,
                   processedDuration, stitched, guardVars, transformVars, semaphoreVars>>

\* a minute passes on the pending timer
Tick ==
    /\ timerElapsed >= 0
    /\ timerElapsed < cleanupDelay
    /\ timerElapsed' = timerElapsed + 1
    /\ UNCHANGED <<chunkerVars, transcriptionVars, flakyChunk, cacheData, stitchVars, apiVars,
                   jpc, phaseLog, cleanupScheduled, cleanupRuns, tempDir, processedDuration, stitched, outputWritten, guardVars, transformVars, semaphoreVars>>

\* the timer callback: AudioProcessor.cleanup, whose rmSync may throw (logged)
Cleanup ==
    /\ timerElapsed >= 0
    /\ TimerDue(timerElapsed)
    /\ timerElapsed' = -1
    /\ cleanupRuns' = cleanupRuns + 1
    /\ \E removed \in BOOLEAN : tempDir' = IF removed THEN "deleted" ELSE tempDir
    /\ UNCHANGED <<chunkerVars, transcriptionVars, flakyChunk, cacheData, stitchVars, apiVars,
                   jpc, phaseLog, cleanupScheduled, processedDuration, stitched, outputWritten, guardVars, transformVars, semaphoreVars>>

\* the job ids a status request may carry: the job followed here and one the
\* service never ran
JobIds == {"job", "unknown"}

\* fs.existsSync(tempDir): the directory the AudioProcessor constructor made
TempDirExists(jobId) == jobId = "job" /\ jpc # "off" /\ tempDir = "exists"

\* fs.existsSync(logFile): createJobLogger opened job-<id>.log when the job
\* began, and nothing removes it
LogFileExists(jobId) == jobId = "job" /\ jpc # "off"

\* getJobStatus: exists and completed
JobExists(dirPresent, logPresent) == dirPresent \/ logPresent

JobCompletedByLog(dirPresent, logPresent) == logPresent

JobCompleted(dirPresent, logPresent) == ~dirPresent /\ logPresent

\* router.get('/status/:jobId') behind its authentication
GetJobStatus ==
    /\ \E jobId \in JobIds :
          LET exists == JobExists(TempDirExists(jobId), LogFileExists(jobId))
              completed == JobCompleted(TempDirExists(jobId), LogFileExists(jobId))
          IN  statusReply' =
                 [jobId     |-> jobId,
                  exists    |-> exists,
                  completed |-> completed,
                  status    |-> IF completed THEN "completed"
                                ELSE IF exists THEN "processing" ELSE "not_found"]
    /\ UNCHANGED <<chunkerVars, transcriptionVars, flakyChunk, cacheData, stitchVars,
                   pipelineVars, guardVars, transformVars, semaphoreVars>>

PipelineInit ==
    /\ chunkerRev = "smart"
    /\ speedFactor \in StitchSpeeds
    /\ originalDuration \in ShortDurations
    /\ originalSizeBytes = 0
    /\ encodedRate = 0
    /\ silences = <<>>
    /\ cpc = "off"
    /\ plans = <<>>
    /\ currentStart = 0
    /\ chunkIndex = 0
    /\ attemptDuration = 0
    /\ chunks = <<>>
    /\ sizeWarnings = {}
    /\ whisperRev = "tracking"
    /\ numChunks = 0
    /\ tpc = "off"
    /\ transcriptionAttempt = 1
    /\ attempt = 1
    /\ batchAttempts = 0
    /\ permits = concurrentChunks
    /\ waitQueue = <<>>
    /\ cst = [c \in ChunkIds |-> "idle"]
    /\ attemptNumber = [c \in ChunkIds |-> 0]
    /\ errors = [c \in ChunkIds |-> <<>>]
    /\ responses = [c \in ChunkIds |-> <<>>]
    /\ cache = [c \in ChunkIds |-> "none"]
    /\ results = <<>>
    /\ chunkResults = <<>>
    /\ permFailed = {}
    /\ flakyChunk = 0
    /\ cacheData = [c \in ChunkIds |-> 0]
    /\ StitchOff
    /\ jpc = "transform"
    /\ phaseLog = <<>>
    /\ cleanupScheduled = 0
    /\ timerElapsed = -1
    /\ cleanupRuns = 0
    /\ tempDir = "exists"
    /\ processedDuration = 0
    /\ stitched = ""
    /\ outputWritten = FALSE
    /\ ApiOff
    /\ GuardOff
    /\ TransformOff
    /\ SemaphoreOff

PipelineNext ==
    \/ ProcessAudio
    \/ CreateChunksPhase
    \/ StartTranscription
    \/ jpc = "transcribe" /\ JobNext
    \/ TranscriptionFailed
    \/ TimestampCorrection
    \/ GenerateOutput
    \/ Tick
    \/ Cleanup
    \/ GetJobStatus /\ UNCHANGED <<request, rpc, httpStatus, jobsStarted>>

PipelineSpec == PipelineInit /\ [][PipelineNext]_vars

\* --------------------------------------------------------------------- C19
PhaseOrder == <<"transform", "chunk", "transcribe", "stitch", "emit">>

\* the processed file is missing or its duration is more than 5 % off
TransformFailed ==
    /\ Len(phaseLog) >= 1
    /\ Abs(processedDuration - ExpectedAcceleratedDuration(originalDuration, speedFactor)) * 100
          > 5 * ExpectedAcceleratedDuration(originalDuration, speedFactor)

NoTranscriptionCall ==
    /\ batchAttempts = 0
    /\ \A c \in ChunkIds : attemptNumber[c] = 0 /\ responses[c] = <<>>

\* C19: the phases of a job run strictly in the order transform, chunk,
\* transcribe, stitch, emit, each starting only after the previous one
\* completed; when the transform or its post-validation fails the job ends
\* failed and neither chunking nor a transcription call is attempted.
C19_PhasesInOrder ==
    /\ Len(phaseLog) <= Len(PhaseOrder)
    /\ \A i \in 1..Len(phaseLog) : phaseLog[i] = PhaseOrder[i]
    /\ Len(phaseLog) >= 2 => ~TransformFailed
    /\ Len(phaseLog) >= 3 => numChunks >= 1
    /\ Len(phaseLog) < 3 => NoTranscriptionCall
    /\ Len(phaseLog) >= 4
          => /\ tpc = "transcribed"
             /\ Len(chunkResults) = numChunks
             /\ FailureCount(chunkResults) = 0
    /\ TransformFailed
          => /\ jpc = "failed"
             /\ phaseLog = <<"transform">>
             /\ numChunks = 0
             /\ NoTranscriptionCall

\* a job that went through all five phases, the transcription phase needing
\* a second pass
C19_Witness ==
    /\ jpc = "completed"
    /\ phaseLog = PhaseOrder
    /\ numChunks = 2
    /\ batchAttempts = 2

\* the failure case of C19: the processed file is a fifth too short
C19_MismatchReached ==
    /\ TransformFailed
    /\ processedDuration > 0
    /\ jpc = "failed"

\* --------------------------------------------------------------------- C20
Terminal == jpc \in {"completed", "failed"}

C21_StatusFromDisk ==
    [][statusReply' # statusReply
          => /\ statusReply'.exists
                   = (TempDirExists(statusReply'.jobId) \/ LogFileExists(statusReply'.jobId))
             /\ statusReply'.completed
                   = (~TempDirExists(statusReply'.jobId) /\ LogFileExists(statusReply'.jobId))
             /\ statusReply'.jobId = "job"
                   => /\ tempDir = "exists" => statusReply'.status = "processing"
                      /\ tempDir = "deleted" => statusReply'.status = "completed"
             /\ statusReply'.jobId = "unknown" => statusReply'.status = "not_found"]_vars

\* the job has ended, its directory has been removed five minutes later and
\* the status request is answered completed
C21_Witness ==
    /\ jpc = "completed"
    /\ cleanupRuns = 1
    /\ tempDir = "deleted"
    /\ statusReply = [jobId |-> "job", exists |-> TRUE, completed |-> TRUE,
                      status |-> "completed"]

-----------------------------------------------------------------------------
\* The routes POST /transcribe and GET /status/:jobId behind authenticateToken.
\* A header is the sequence of its values: <<>> when it was not sent. The job
\* a request starts is reduced to its outcome here (PipelineSpec holds it).

apiKey == "s3cret"

\* req.headers['x-api-key']: not sent, empty, the secret, something else
ApiKeyHeaders == {<<>>, <<"">>, <<apiKey>>, <<"wrong">>}

\* req.headers.authorization as <<scheme, credentials>>
AuthorizationHeaders ==
    {<<>>, <<"Bearer", apiKey>>, <<"Bearer", "wrong">>, <<"Bearer", "">>, <<"Basic", apiKey>>}

Requests ==
    [route : {"transcribe", "status"}, xApiKey : ApiKeyHeaders,
     authorization : AuthorizationHeaders]

\* authHeader && authHeader.startsWith('Bearer ') ? authHeader.slice(7) : null
\* (null is <<>>)
BearerToken(authHeader) ==
    IF authHeader # <<>> /\ authHeader[1] = "Bearer" THEN <<authHeader[2]>> ELSE <<>>

\* JavaScript truthiness of a header value: undefined, null and '' are falsy
Truthy(value) == value # <<>> /\ value # <<"">>

\* const token = xApiKey || bearerToken
BearerOnlyToken(xApiKey, bearerToken) == bearerToken

Token(xApiKey, bearerToken) == IF Truthy(xApiKey) THEN xApiKey ELSE bearerToken

\* authenticateToken
AuthenticateToken ==
    /\ rpc = "received"
    /\ LET token == Token(request.xApiKey, BearerToken(request.authorization))
       IN  IF ~Truthy(token) \/ token # <<apiKey>>
           THEN /\ httpStatus' = 401
                /\ rpc' = "done"
           ELSE /\ rpc' = "next"
                /\ UNCHANGED httpStatus
    /\ UNCHANGED <<chunkerVars, transcriptionVars, flakyChunk, cacheData, stitchVars,
                   pipelineVars, statusReply, request, jobsStarted, guardVars, transformVars, semaphoreVars>>

\* router.post('/transcribe') up to the transcribeAudio call: a missing file
\* or invalid parameters are answered 400
TranscribeRoute ==
    /\ rpc = "next"
    /\ request.route = "transcribe"
    /\ \E accepted \in BOOLEAN :
          IF accepted
          THEN /\ jobsStarted' = jobsStarted + 1
               /\ jpc' = "transform"
               /\ rpc' = "running"
               /\ UNCHANGED httpStatus
          ELSE /\ httpStatus' = 400
               /\ rpc' = "done"
               /\ UNCHANGED <<jobsStarted, jpc>>
    /\ UNCHANGED <<chunkerVars, transcriptionVars, flakyChunk, cacheData, stitchVars,
                   phaseLog, cleanupScheduled, timerElapsed, cleanupRuns, tempDir,
                   processedDuration, stitched, outputWritten, statusReply, request, guardVars, transformVars, semaphoreVars>>

\* transcribeAudio has returned or thrown: the response of POST /transcribe
TranscribeResponse ==
    /\ rpc = "running"
    /\ \E returned \in BOOLEAN :
          /\ EndJob(IF returned THEN "completed" ELSE "failed")
          /\ httpStatus' = IF returned THEN 200 ELSE 500
    /\ rpc' = "done"
    /\ UNCHANGED <<chunkerVars, transcriptionVars, flakyChunk, cacheData, stitchVars,
                   phaseLog, processedDuration, stitched, outputWritten, statusReply, request, jobsStarted, guardVars, transformVars, semaphoreVars>>

\* router.get('/status/:jobId')
StatusRoute ==
    /\ rpc = "next"
    /\ request.route = "status"
    /\ GetJobStatus
    /\ httpStatus' = 200
    /\ rpc' = "done"
    /\ UNCHANGED <<request, jobsStarted>>

ApiInit ==
    /\ ChunkerOff
    /\ TranscriptionOff
    /\ StitchOff
    /\ PipelineOff
    /\ statusReply = [jobId |-> "", exists |-> FALSE, completed |-> FALSE, status |-> ""]
    /\ request \in Requests
    /\ rpc = "received"
    /\ httpStatus = 0
    /\ jobsStarted = 0
    /\ GuardOff
    /\ TransformOff
    /\ SemaphoreOff

ApiNext ==
    \/ AuthenticateToken
    \/ TranscribeRoute
    \/ TranscribeResponse
    \/ StatusRoute

ApiSpec == ApiInit /\ [][ApiNext]_vars

\* --------------------------------------------------------------------- C22
\* the request carries the secret as C22 words it: in the X-API-Key header,
\* or as Bearer token when no X-API-Key header is sent
KeyAsStated ==
    IF request.xApiKey # <<>>
    THEN request.xApiKey = <<apiKey>>
    ELSE BearerToken(request.authorization) = <<apiKey>>

\* the same with an X-API-Key header of empty value counted as not sent
KeyOrFallback ==
    IF request.xApiKey # <<>> /\ request.xApiKey # <<"">>
    THEN request.xApiKey = <<apiKey>>
    ELSE BearerToken(request.authorization) = <<apiKey>>

\* C22 (as stated): a request reaches its handler only if the X-API-Key
\* header, or the Bearer token when no X-API-Key header is sent, equals the
\* configured secret; every other request is answered 401 and starts no job.
C22_AuthAsStated ==
    rpc \in {"next", "running", "done"}
       => /\ (rpc = "done" /\ httpStatus = 401) = ~KeyAsStated
          /\ ~KeyAsStated
                => /\ jobsStarted = 0
                   /\ jpc = "off"
                   /\ statusReply.jobId = ""

\* C22 (amended): a request reaches its handler only if the X-API-Key header,
\* or the Bearer token when the X-API-Key header is absent or empty, equals
\* the configured secret; every other request is answered 401 and starts no
\* job.
C22_AuthWithFallback ==
    rpc \in {"next", "running", "done"}
       => /\ (rpc = "done" /\ httpStatus = 401) = ~KeyOrFallback
          /\ ~KeyOrFallback
                => /\ jobsStarted = 0
                   /\ jpc = "off"
                   /\ statusReply.jobId = ""

\* a POST /transcribe with an empty X-API-Key header and the right Bearer
\* token has started a job and been answered
C22_Witness ==
    /\ request = [route |-> "transcribe", xApiKey |-> <<"">>,
                  authorization |-> <<"Bearer", apiKey>>]
    /\ rpc = "done"
    /\ httpStatus = 200
    /\ jobsStarted = 1

\* --------------------------------------------------------------------- C23
\* the transcription phase gave up: a chunk was still failed after the last
\* attempt of the retry loop
ChunksStillFailed == tpc = "jobFailed"

\* C23: transcribeAudio returns a result only if every chunk was transcribed
\* successfully and at least one segment was produced; if any chunk is still
\* failed after the retries, or no segment was produced, the job fails and no
\* artifact is written.
C23_ResultOnlyOnFullSuccess ==
    /\ jpc = "completed"
          => /\ tpc = "transcribed"
             /\ Len(chunkResults) = numChunks
             /\ FailureCount(chunkResults) = 0
             /\ stitched = "segments"
             /\ outputWritten
    /\ outputWritten
          => /\ tpc = "transcribed"
             /\ FailureCount(chunkResults) = 0
             /\ stitched = "segments"
    /\ ChunksStillFailed => jpc \in {"transcribe", "failed"} /\ stitched = ""
    /\ stitched = "none" => jpc = "failed"
    /\ (Terminal /\ (ChunksStillFailed \/ stitched = "none")) => jpc = "failed" /\ ~outputWritten

\* a job of two chunks, one of them failed in all three rounds of the retry
\* loop, has ended failed without an output file
C23_Witness ==
    /\ jpc = "failed"
    /\ numChunks = 2
    /\ transcriptionAttempt = maxTranscriptionRetries
    /\ ChunksStillFailed
    /\ ~outputWritten
    /\ phaseLog = <<"transform", "chunk", "transcribe">>

-----------------------------------------------------------------------------
\* WhisperService (tracking revision): validateWhisperResponse and
\* detectRepeatedSegments, applied to the body of every 200 answer before it
\* is cached.

\* String.prototype.normalize('NFKD'): a precomposed letter becomes the base
\* letter followed by its combining mark
RECURSIVE NFKD(_)
NFKD(t) ==
    IF t = <<>> THEN <<>>
    ELSE IF Head(t) = "e+acute" THEN <<"e", "acute">> \o NFKD(Tail(t))
    ELSE <<Head(t)>> \o NFKD(Tail(t))

Letters == {"a", "b", "c", "d", "e", "h", "l", "o", "y", "H", "E", "L", "O"}
Digits == {"0", "1"}
Whitespace == {" "}

\* .replace(/[^\p{L}\p{N}\s]/gu, ''): only letters, digits and white space stay
StripNonAlphanumeric(t) ==
    SelectSeq(t, LAMBDA ch : ch \in Letters \cup Digits \cup Whitespace)

\* .replace(/\s+/g, ' '): every run of white space becomes one blank
RECURSIVE CollapseSpaces(_)
CollapseSpaces(t) ==
    IF t = <<>> THEN <<>>
    ELSE IF Head(t) \in Whitespace
    THEN IF Tail(t) # <<>> /\ Head(Tail(t)) \in Whitespace
         THEN CollapseSpaces(Tail(t))
         ELSE <<" ">> \o CollapseSpaces(Tail(t))
    ELSE <<Head(t)>> \o CollapseSpaces(Tail(t))

\* String.prototype.toLowerCase
ToLowerCase(t) ==
    [i \in 1..Len(t) |->
        CASE t[i] = "H" -> "h"
          [] t[i] = "E" -> "e"
          [] t[i] = "L" -> "l"
          [] t[i] = "O" -> "o"
          [] OTHER -> t[i]]

\* normalizeSegmentText
NormalizeSegmentText(text) ==
    ToLowerCase(Trim(CollapseSpaces(StripNonAlphanumeric(NFKD(text)))))

AnyLengthRepeats(baseText) == TRUE
\* the scan skips a base text shorter than MIN_REPETITION_LENGTH
LongEnoughToRepeat(baseText) == Len(baseText) >= minRepetitionLength

\* detectRepeatedSegments, the loop from position i on (1-based): TRUE when it
\* throws the hallucination error
RECURSIVE RepeatedFrom(_, _)
RepeatedFrom(segs, i) ==
    IF i > Len(segs) - repetitionThreshold + 1 THEN FALSE
    ELSE LET baseText == NormalizeSegmentText(segs[i])
         IN IF ~LongEnoughToRepeat(baseText) THEN RepeatedFrom(segs, i + 1)
            ELSE IF \A j \in 1..(repetitionThreshold - 1) :
                        NormalizeSegmentText(segs[i + j]) = baseText
            THEN TRUE
            ELSE RepeatedFrom(segs, i + 1)

DetectRepeatedSegments(segs) ==
    IF Len(segs) < repetitionThreshold THEN FALSE ELSE RepeatedFrom(segs, 1)

\* response.text of a verbose_json answer: the texts of its segments, joined
RECURSIVE ResponseText(_)
ResponseText(segs) ==
    IF segs = <<>> THEN <<>> ELSE Head(segs) \o ResponseText(Tail(segs))

NeverSuspiciouslyShort(responseDuration, chunkDuration) == FALSE
\* isSuspiciouslyShort: responseDuration < chunk.duration * 0.1
IsSuspiciouslyShort(responseDuration, chunkDuration) ==
    responseDuration * 10 < chunkDuration

\* hasMinimalText: trimmedTextLength < 10
HasMinimalText(segs) == Len(Trim(ResponseText(segs))) < minimalTextLength

\* validateWhisperResponse up to its throw
IsSilentFailure(body, chunkDuration) ==
    \/ Len(body.segments) = 0
    \/ /\ HasMinimalText(body.segments)
       /\ IsSuspiciouslyShort(body.duration, chunkDuration)

\* what an attempt makes of a 200 answer: validateWhisperResponse throws one
\* of its two errors or returns
ValidateWhisperResponse(body, chunkDuration) ==
    IF IsSilentFailure(body, chunkDuration) THEN "silent"
    ELSE IF DetectRepeatedSegments(body.segments) THEN "hallucination"
    ELSE "ok"

\* segment texts the service answers with: two spellings of one sentence, a
\* short interjection, two spellings of another sentence
SegmentTexts ==
    { <<"H", "e", "l", "l", "o">>,
      <<" ", "h", "e+acute", "L", "L", "o", "!", " ">>,
      <<"H", "e", "y", "!">>,
      <<"a", " ", " ", "b", "c", "d">>,
      <<"a", " ", "b", "c", "d">> }

SegmentLists(n) == UNION {[1..k -> SegmentTexts] : k \in 0..n}

\* response.duration of an answer for a chunk of the given length: far too
\* short, exactly a tenth, the chunk's length
ResponseDurations(chunkDuration) ==
    {(chunkDuration * 9) \div 100, chunkDuration \div 10, chunkDuration}

\* one attempt of retry() that gets a 200: the body is validated, then cached
\* and returned, or the validation error is thrown into the retry schedule
ValidatedAttempt(c, bodies) ==
    \E body \in bodies :
        LET o == ValidateWhisperResponse(body, chunkLength)
        IN /\ whisperResponse' = body
           /\ Attempt(c, o)
           /\ cachedDuration' = IF o = "ok"
                                THEN [cachedDuration EXCEPT ![c] = body.duration]
                                ELSE cachedDuration
           /\ UNCHANGED <<chunkLength, serviceBody, cancelled>>

\* one attempt of retry() whose request fails
FailedRequest(c) ==
    \E o \in {"e5xx", "s413"} :
        /\ whisperResponse' = [status |-> IF o = "e5xx" THEN 500 ELSE 413,
                               segments |-> <<>>, duration |-> 0]
        /\ Attempt(c, o)
        /\ UNCHANGED <<chunkLength, cachedDuration, serviceBody, cancelled>>

\* one chunk of 10 s goes through transcribeChunks; the service answers each
\* request with an error or with the body it makes of the chunk's audio, which
\* is any list of segments with any duration; the cache file is in any state
GuardInit ==
    /\ ChunkerOff
    /\ StitchOff
    /\ PipelineOff
    /\ ApiOff
    /\ TransformOff
    /\ SemaphoreOff
    /\ whisperResponse = [status |-> 0, segments |-> <<>>, duration |-> 0]
    /\ chunkLength = 10000
    /\ cachedDuration = [c \in ChunkIds |-> 0]
    /\ \E segs \in SegmentLists(MaxSegments), d \in ResponseDurations(10000) :
          serviceBody = [status |-> 200, segments |-> segs, duration |-> d]
    /\ cancelled = FALSE
    /\ whisperRev = "tracking"
    /\ numChunks = 1
    /\ tpc = "pass"
    /\ transcriptionAttempt = 1
    /\ attempt = 1
    /\ batchAttempts = 0
    /\ permits = concurrentChunks
    /\ waitQueue = <<>>
    /\ cst = [c \in ChunkIds |-> "idle"]
    /\ attemptNumber = [c \in ChunkIds |-> 0]
    /\ errors = [c \in ChunkIds |-> <<>>]
    /\ responses = [c \in ChunkIds |-> <<>>]
    /\ flakyChunk = 1
    /\ cacheData = [c \in ChunkIds |-> 0]
    /\ cache \in [ChunkIds -> {"none", "valid", "corrupt"}]
    /\ \A c \in ChunkIds : c # flakyChunk => cache[c] = "none"
    /\ results = <<>>
    /\ chunkResults = <<>>
    /\ permFailed = {}

GuardNext ==
    \/ ProcessChunks /\ UNCHANGED <<chunkerVars, stitchVars, pipelineVars, apiVars, flakyChunk, cacheData, guardVars, transformVars, semaphoreVars>>
    \/ \E c \in ChunkIds : TranscribeChunk(c) /\ UNCHANGED <<chunkerVars, stitchVars, pipelineVars, apiVars, flakyChunk, guardVars, transformVars, semaphoreVars>>
    \/ \E c \in ChunkIds : ValidatedAttempt(c, {serviceBody}) /\ UNCHANGED <<chunkerVars, stitchVars, pipelineVars, apiVars, flakyChunk, transformVars, semaphoreVars>>
    \/ \E c \in ChunkIds : FailedRequest(c) /\ UNCHANGED <<chunkerVars, stitchVars, pipelineVars, apiVars, flakyChunk, transformVars, semaphoreVars>>
    \/ CollectResults /\ UNCHANGED <<chunkerVars, stitchVars, pipelineVars, apiVars, flakyChunk, cacheData, guardVars, transformVars, semaphoreVars>>

GuardSpec == GuardInit /\ [][GuardNext]_vars

Last(q) == q[Len(q)]

\* the chunk's last attempt got a 200 answer
AnsweredWithBody(c) == responses[c] # <<>> /\ whisperResponse.status = 200

\* the shape of a silent failure, in the words of the claim
SilentShape(body) ==
    \/ body.segments = <<>>
    \/ /\ Len(Trim(ResponseText(body.segments))) < 10
       /\ body.duration * 10 < chunkLength

\* C24: a response with an empty segment list, or with trimmed text shorter
\* than 10 characters together with a reported duration below 10% of the chunk
\* duration, makes the attempt fail with the suspicious-result error and be
\* retried like a transient error (another attempt follows while attempts are
\* left, then the chunk fails); it is never written to the cache and never
\* returned as a success, and a failed chunk leaves no cache file.
C24_SilentFailureRetried ==
    /\ (AnsweredWithBody(1) /\ SilentShape(whisperResponse))
          => /\ Last(responses[1]) = "silent"
             /\ Last(errors[1]) = "Whisper API returned suspicious result"
             /\ Len(errors[1]) = attemptNumber[1]
             /\ cache[1] = "none"
             /\ cachedDuration[1] = 0
             /\ IF attemptNumber[1] <= maxRetries
                THEN cst[1] = "retrying"
                ELSE /\ cst[1] = "finished"
                     /\ \E i \in 1..Len(results) :
                           results[i].chunkIndex = 1 /\ ~results[i].success
             /\ \A i \in 1..Len(results) : results[i].chunkIndex = 1 => ~results[i].success
    /\ \A i \in 1..Len(results) : ~results[i].success => cache[results[i].chunkIndex] = "none"

\* a short text with a duration under a tenth of the chunk's was answered to
\* the second attempt, after a 500, and a third attempt is due
C24_Witness ==
    /\ AnsweredWithBody(1)
    /\ whisperResponse.segments # <<>>
    /\ SilentShape(whisperResponse)
    /\ responses[1] = <<"e5xx", "silent">>
    /\ cst[1] = "retrying"
    /\ cache[1] = "none"

\* a run of three consecutive segments whose normalised texts are identical
\* and at least five characters long starts at position i
RunAt(segs, i) ==
    /\ i + 2 <= Len(segs)
    /\ Len(NormalizeSegmentText(segs[i])) >= 5
    /\ NormalizeSegmentText(segs[i + 1]) = NormalizeSegmentText(segs[i])
    /\ NormalizeSegmentText(segs[i + 2]) = NormalizeSegmentText(segs[i])

HasRun(segs) == \E i \in 1..Len(segs) : RunAt(segs, i)

\* the normaliser on the texts the service answers with: spelling, accents,
\* punctuation, case and spacing do not tell two texts apart, letters do
NormalisedAsExpected ==
    /\ NormalizeSegmentText(<<" ", "h", "e+acute", "L", "L", "o", "!", " ">>)
          = <<"h", "e", "l", "l", "o">>
    /\ NormalizeSegmentText(<<"a", " ", " ", "b", "c", "d">>) = <<"a", " ", "b", "c", "d">>
    /\ NormalizeSegmentText(<<"H", "e", "y", "!">>) = <<"h", "e", "y">>

\* C25: an attempt fails with the hallucination error exactly when the
\* response contains a run of 3 consecutive segments whose normalised texts
\* (NFKD, non-alphanumerics stripped, lower-cased, spaces collapsed) are
\* identical and at least 5 characters long; a response with no such run
\* passes the guard (it is cached and returned unless it is a silent failure).
C25_HallucinationExactlyOnRun ==
    /\ NormalisedAsExpected
    /\ AnsweredWithBody(1)
          => /\ Last(responses[1]) = "hallucination" <=> HasRun(whisperResponse.segments)
             /\ Last(responses[1]) = "hallucination"
                   => /\ Last(errors[1]) = "Whisper API hallucination detected"
                      /\ cache[1] = "none"
             /\ (~HasRun(whisperResponse.segments) /\ ~SilentShape(whisperResponse))
                   => /\ Last(responses[1]) = "ok"
                      /\ cache[1] = "valid"
                      /\ \E i \in 1..Len(results) :
                            results[i].chunkIndex = 1 /\ results[i].success

\* the answer's second to fourth segments are three spellings of one sentence
\* and the attempt failed with the hallucination error
C25_Witness ==
    /\ AnsweredWithBody(1)
    /\ Len(whisperResponse.segments) = 4
    /\ ~RunAt(whisperResponse.segments, 1)
    /\ RunAt(whisperResponse.segments, 2)
    /\ whisperResponse.segments[2] # whisperResponse.segments[3]
    /\ Last(responses[1]) = "hallucination"

\* three short interjections in a row passed the guard
C25_ShortRunPasses ==
    /\ AnsweredWithBody(1)
    /\ whisperResponse.segments = [i \in 1..3 |-> <<"H", "e", "y", "!">>]
    /\ Last(responses[1]) = "ok"

-----------------------------------------------------------------------------
\* The cache files of a job: written by the attempts of transcribeChunk, read
\* by the later passes of transcribeChunks over the same chunks.

\* bodies the service answers with: two sentences with the chunk's duration,
\* with a duration 4% short of it or with a fraction of it, and an empty answer
CacheBodies(chunkDuration) ==
    { [status |-> 200, segments |-> segs, duration |-> d] :
         segs \in {<<<<"H", "e", "l", "l", "o">>, <<"a", " ", "b", "c", "d">>>>},
         d \in {chunkDuration, (chunkDuration * 96) \div 100, (chunkDuration * 9) \div 100} }
    \cup {[status |-> 200, segments |-> <<>>, duration |-> 0]}

\* the process is killed inside fs.writeFileSync(cacheFile, ...): the file has
\* been opened for writing and holds none or a part of the JSON text
KilledWhileWriting(c) ==
    /\ tpc = "running"
    /\ cst[c] = "retrying"
    /\ \E body \in CacheBodies(chunkLength) :
          /\ ValidateWhisperResponse(body, chunkLength) = "ok"
          /\ whisperResponse' = body
    /\ cache' = [cache EXCEPT ![c] = "corrupt"]
    /\ tpc' = "killed"
    /\ UNCHANGED <<whisperRev, numChunks, transcriptionAttempt, attempt, batchAttempts,
                   permits, waitQueue, cst, attemptNumber, errors, responses,
                   results, chunkResults, permFailed, cacheData,
                   chunkLength, cachedDuration, serviceBody, cancelled>>

\* the client closes the connection of its POST /transcribe while the job is
\* running: the handler has registered no listener, nothing in the job changes
ClientDisconnect ==
    /\ tpc \in {"pass", "running"}
    /\ ~cancelled
    /\ cancelled' = TRUE
    /\ UNCHANGED <<transcriptionVars, cacheData, whisperResponse, chunkLength,
                   cachedDuration, serviceBody>>

\* a job of one or two chunks of 10 s enters transcribeChunks with a new
\* transcripts directory
CacheInit ==
    /\ ChunkerOff
    /\ StitchOff
    /\ PipelineOff
    /\ ApiOff
    /\ TransformOff
    /\ SemaphoreOff
    /\ whisperResponse = [status |-> 0, segments |-> <<>>, duration |-> 0]
    /\ chunkLength = 10000
    /\ cachedDuration = [c \in ChunkIds |-> 0]
    /\ serviceBody = [status |-> 0, segments |-> <<>>, duration |-> 0]
    /\ cancelled = FALSE
    /\ whisperRev = "tracking"
    /\ numChunks \in 1..MaxJobChunks
    /\ tpc = "pass"
    /\ transcriptionAttempt = 1
    /\ attempt = 1
    /\ batchAttempts = 0
    /\ permits = concurrentChunks
    /\ waitQueue = <<>>
    /\ cst = [c \in ChunkIds |-> "idle"]
    /\ attemptNumber = [c \in ChunkIds |-> 0]
    /\ errors = [c \in ChunkIds |-> <<>>]
    /\ responses = [c \in ChunkIds |-> <<>>]
    /\ flakyChunk = 0
    /\ cacheData = [c \in ChunkIds |-> 0]
    /\ cache = [c \in ChunkIds |-> "none"]
    /\ results = <<>>
    /\ chunkResults = <<>>
    /\ permFailed = {}

CacheNext ==
    \/ ProcessChunks /\ UNCHANGED <<chunkerVars, stitchVars, pipelineVars, apiVars, flakyChunk, cacheData, guardVars, transformVars, semaphoreVars>>
    \/ \E c \in ChunkIds : TranscribeChunk(c) /\ UNCHANGED <<chunkerVars, stitchVars, pipelineVars, apiVars, flakyChunk, guardVars, transformVars, semaphoreVars>>
    \/ \E c \in ChunkIds : ValidatedAttempt(c, CacheBodies(chunkLength)) /\ UNCHANGED <<chunkerVars, stitchVars, pipelineVars, apiVars, flakyChunk, transformVars, semaphoreVars>>
    \/ \E c \in ChunkIds : FailedRequest(c) /\ UNCHANGED <<chunkerVars, stitchVars, pipelineVars, apiVars, flakyChunk, transformVars, semaphoreVars>>
    \/ \E c \in ChunkIds : KilledWhileWriting(c) /\ UNCHANGED <<chunkerVars, stitchVars, pipelineVars, apiVars, flakyChunk, transformVars, semaphoreVars>>
    \/ ClientDisconnect /\ UNCHANGED <<chunkerVars, stitchVars, pipelineVars, apiVars, flakyChunk, transformVars, semaphoreVars>>
    \/ CollectResults /\ UNCHANGED <<chunkerVars, stitchVars, pipelineVars, apiVars, flakyChunk, cacheData, guardVars, transformVars, semaphoreVars>>

CacheSpec == CacheInit /\ [][CacheNext]_vars

\* a reported duration within 5% of the chunk's
WithinFivePercent(duration, chunkDuration) ==
    LET diff == IF duration > chunkDuration THEN duration - chunkDuration
                ELSE chunkDuration - duration
    IN diff * 100 <= 5 * chunkDuration

\* C26: on a cache hit the cached payload is validated against the chunk
\* (reported duration within 5% of the chunk's); a mismatching payload is
\* deleted and the chunk transcribed again, it never becomes the chunk's
\* result: a chunk that holds a permit and finds a mismatching payload in its
\* cache file does not finish on it.
C26_CachedPayloadValidated ==
    [][\A c \in ChunkIds :
          (cst[c] = "acquired" /\ cache[c] = "valid"
              /\ ~WithinFivePercent(cachedDuration[c], chunkLength))
             => /\ cst'[c] # "finished"
                /\ cst'[c] = "retrying" => cache'[c] = "none"]_vars

\* C27: at every moment, also after an interruption in the middle of a write,
\* a file present at a chunk's cache path holds one complete validated
\* response.
C27_CacheFileComplete ==
    \A c \in ChunkIds : cache[c] \in {"none", "valid"}

\* C28: once the job is cancelled (the client has disconnected), no chunk
\* starts another retry attempt, no further global attempt is started and no
\* cache file is left partially written.
C28_CancellationStopsAttempts ==
    /\ [](cancelled => \A c \in ChunkIds : cache[c] # "corrupt")
    /\ [][cancelled => /\ \A c \in ChunkIds : attemptNumber'[c] <= attemptNumber[c]
                       /\ attempt' = attempt]_vars

-----------------------------------------------------------------------------
\* AudioProcessor.validateProcessedAudio and the 'end' handler of
\* processAudio. Durations are in ms, the speed factor in tenths.

SkipSizeCheck(sizeBytes) == FALSE
\* stats.size === 0
IsEmptyFile(sizeBytes) == sizeBytes = 0

\* validateProcessedAudio: the four checks in their order, each one that
\* fires replacing the error of the ones before
ValidateProcessedAudio(actual, expected, sizeBytes) ==
    LET mismatch == Abs(actual - expected) * 100 > 5 * expected
        duplication == actual * 10 > expected * 19
        corruption == actual * 2 < expected
        empty == IsEmptyFile(sizeBytes)
    IN [isValid |-> ~(mismatch \/ duplication \/ corruption \/ empty),
        error |-> IF empty THEN "Output file is empty (0 bytes)"
                  ELSE IF corruption THEN "Possible audio corruption"
                  ELSE IF duplication THEN "Possible audio duplication detected"
                  ELSE IF mismatch THEN "Duration mismatch"
                  ELSE ""]

\* sources of one minute and of one hour, speed factors 1.0, 1.5 and 2.0
TransformDurations == {60000, 3600000}
TransformSpeeds == {10, 15, 20}

\* what ffprobe reports for the processed file, against the expected
\* duration: on it, at and past each limit of the checks, the unaccelerated
\* source's duration
ProbedDurations(original, expected) ==
    {expected, (expected * 95) \div 100, (expected * 94) \div 100,
     (expected * 105) \div 100, (expected * 106) \div 100,
     expected \div 2, (expected * 49) \div 100,
     (expected * 19) \div 10, (expected * 191) \div 100, original, 0}

\* the 'end' handler of processAudio: the processed file is validated and the
\* promise resolves, or rejects with the validation's error
ProcessAudioEnd ==
    /\ processAudioResult = "pending"
    /\ LET result == ValidateProcessedAudio(probed.duration,
                        ExpectedAcceleratedDuration(originalDuration, speedFactor),
                        probed.sizeBytes)
       IN /\ validationResult' = result
          /\ processAudioResult' = IF result.isValid THEN "resolved" ELSE result.error
    /\ UNCHANGED <<probed, chunkerVars, transcriptionVars, flakyChunk, cacheData,
                   stitchVars, pipelineVars, apiVars, guardVars, semaphoreVars>>

\* ffmpeg has written the processed file of any source
TransformInit ==
    /\ chunkerRev = "smart"
    /\ speedFactor \in TransformSpeeds
    /\ originalDuration \in TransformDurations
    /\ originalSizeBytes = 1048576
    /\ encodedRate = 16000
    /\ silences = <<>>
    /\ cpc = "off"
    /\ plans = <<>>
    /\ currentStart = 0
    /\ chunkIndex = 0
    /\ attemptDuration = 0
    /\ chunks = <<>>
    /\ sizeWarnings = {}
    /\ TranscriptionOff
    /\ StitchOff
    /\ PipelineOff
    /\ ApiOff
    /\ GuardOff
    /\ \E d \in ProbedDurations(originalDuration,
                   ExpectedAcceleratedDuration(originalDuration, speedFactor)),
          size \in {0, 1000} :
          probed = [duration |-> d, sizeBytes |-> size]
    /\ validationResult = [isValid |-> FALSE, error |-> ""]
    /\ processAudioResult = "pending"
    /\ SemaphoreOff

TransformNext == ProcessAudioEnd

TransformSpec == TransformInit /\ [][TransformNext]_vars

ExpectedOfJob == ExpectedAcceleratedDuration(originalDuration, speedFactor)

\* the transform step fails exactly on one of the four violations
C29_FailsExactlyOnViolation ==
    processAudioResult \notin {"pending", "off"}
       => (processAudioResult # "resolved"
             <=> \/ Abs(probed.duration - ExpectedOfJob) * 100 > 5 * ExpectedOfJob
                 \/ probed.duration * 10 > 19 * ExpectedOfJob
                 \/ probed.duration * 2 < ExpectedOfJob
                 \/ probed.sizeBytes = 0)

\* C29: the transform step fails the job exactly when the accelerated
\* output's probed duration deviates from original/F by more than 5%, or
\* exceeds 1.9 times it, or is below 0.5 times it, or the output file has size
\* 0; for a source of 3600 s with F = 2 whose output probes as 3600 s the
\* reported error is the Duration mismatch error.
C29_TransformValidation ==
    /\ C29_FailsExactlyOnViolation
    /\ (/\ processAudioResult \notin {"pending", "off"}
        /\ originalDuration = 3600000
        /\ speedFactor = 20
        /\ probed.duration = 3600000
        /\ probed.sizeBytes > 0)
          => processAudioResult = "Duration mismatch"

\* after the stitching pass a QUALITY_ALERT is among the warnings exactly when
\* the stitcher's last end is more than 60 s away from the end of the last
\* chunk, or there is less than one segment per minute of expected duration,
\* or more than 30% of the chunks failed
C30_AlertExactlyOnCondition ==
    spc \in {"returned", "finished"}
       => (HasQualityAlert(warnings)
             <=> \/ Abs(lastEndTime - TotalExpectedDuration(sortedResults)) > 60000
                 \/ Len(segments) * 60000 < TotalExpectedDuration(sortedResults)
                 \/ FailureCount(sortedResults) * 10 > 3 * Len(sortedResults))

\* C30: after the stitching pass a QUALITY_ALERT warning is added exactly when
\* the timeline discrepancy exceeds 60 s, or there is less than 1 segment per
\* minute of expected duration, or more than 30% of the chunks failed; the
\* alert does not fail the job, but the job is surfaced as degraded, not as
\* plain completed.
C30_QualityAlertDegrades ==
    /\ C30_AlertExactlyOnCondition
    /\ (spc = "finished" /\ HasQualityAlert(warnings) /\ segments # <<>>)
          => jobStatus \in {"completed_with_warnings", "failed"}

-----------------------------------------------------------------------------
\* the stitcher is at the head of a loop iteration: its next step handles
\* the result named here
AtResult == spc = "chunk" /\ resultIdx <= Len(sortedResults)
NewWarnings == SubSeq(warnings', Len(warnings) + 1, Len(warnings'))
HasKind(ws, kind) == \E k \in 1..Len(ws) : ws[k].kind = kind

C31_OverlapReached ==
    /\ HasKind(warnings, "OVERLAP")
    /\ speedFactor = maxSpeed
    /\ spc = "returned"

-----------------------------------------------------------------------------
\* the number in the name of a chunk's cache file, chunk_NNN.json:
\* String(chunk.index).padStart(3, '0')
CacheFileNumber(chunk) == chunk.index

\* C32: the chunks the chunker returns carry the indices 1..N, contiguous and
\* in timeline order, and the number in the chunk's audio file name and in
\* its cache file name (chunk_NNN) is that same index.
C32_IndexNamesFiles ==
    Returned =>
       \A i \in 1..Len(chunks) :
          /\ chunks[i].index = i
          /\ i > 1 => chunks[i].startTime >= chunks[i - 1].startTime
          /\ chunks[i].path = chunks[i].index
          /\ CacheFileNumber(chunks[i]) = chunks[i].index

\* the detected silences that lie within the window of W around the target
\* boundary T
InWindow(T) ==
    {k \in 1..Len(silences) :
        silences[k].start >= T - silenceWindow /\ silences[k].end <= T + silenceWindow}

\* C33: for each target boundary T, when at least one detected silence lies
\* within the window T-W..T+W the planner cuts at the centre of the silence
\* whose centre is closest to T, so the cut lies within W of T; when no
\* silence lies in the window it cuts exactly at T.
C33_CutAtClosestSilence ==
    \A i \in 1..Len(plans) :
       LET T == plans[i].targetEnd
       IN IF InWindow(T) # {}
          THEN /\ \E k \in InWindow(T) :
                     /\ plans[i].actualEnd = SilenceCenter(silences[k])
                     /\ \A j \in InWindow(T) :
                           Abs(SilenceCenter(silences[k]) - T)
                              <= Abs(SilenceCenter(silences[j]) - T)
               /\ Abs(plans[i].actualEnd - T) <= silenceWindow
          ELSE plans[i].actualEnd = T

\* planSilenceBasedChunks has returned its plans
Planned == chunkerRev = "smart" /\ cpc \in {"cut", "done", "failed"}

\* C34: every chunk of a plan other than the last lasts at least L_min
\* (MIN_CHUNK_DURATION); a boundary snapped to a silence that would make the
\* chunk shorter is replaced by an exact cut.
C34_MinimumChunkLength ==
    Planned =>
       \A i \in 1..(Len(plans) - 1) :
          /\ plans[i].duration >= minChunkDuration
          /\ plans[i].usedSilence => plans[i].actualEnd - plans[i].actualStart >= minChunkDuration

\* C35: no chunk of a plan has a duration below 0.1 s (in particular none has
\* zero or negative duration), and no chunk ends after the total duration.
C35_NoNegligibleChunk ==
    chunkerRev = "smart" =>
       \A i \in 1..Len(plans) :
          /\ plans[i].duration >= 100
          /\ plans[i].duration > 0
          /\ plans[i].actualEnd - plans[i].actualStart = plans[i].duration
          /\ plans[i].actualEnd <= SafeOriginalDuration(originalDuration)

\* planning ended before the end of the audio: the next boundary was snapped
\* to a silence at or before the chunk's start, the chunk would have had no
\* or a negative duration, and it was not planned
C35_Witness ==
    /\ Planned
    /\ Len(plans) > 0
    /\ currentStart < SafeOriginalDuration(originalDuration)
    /\ PlanIteration(currentStart, SafeOriginalDuration(originalDuration),
          IdealChunkDurationOriginal(originalDuration, originalSizeBytes, speedFactor),
          silences).duration <= 0

\* the last boundary was due beyond a silence at the very end and was snapped
\* to it: the plan ends within the audio
C35_SnappedAtEnd ==
    /\ Planned
    /\ Len(plans) > 0
    /\ plans[Len(plans)].usedSilence
    /\ plans[Len(plans)].targetEnd = SafeOriginalDuration(originalDuration)

\* the duration the next cut is made with, and the size of the file it gives
CutDuration ==
    IF chunkerRev = "uniform" THEN attemptDuration ELSE plans[Len(chunks) + 1].duration
CutSize ==
    ChunkFileSize(Max((CutDuration * 10) \div speedFactor, 1), encodedRate)

\* one cut: a file above 18 MiB cut with more than 1 s is cut again with half
\* the duration (at least 1 s), any other file is emitted, with a warning when
\* it is above 18 MiB
HalvesOrEmits ==
    cpc = "cut" /\ (chunkerRev = "smart" => Len(chunks) < Len(plans))
       => IF CutSize > maxChunkBytes /\ CutDuration > 1000
          THEN /\ chunks' = chunks
               /\ cpc' = "cut"
               /\ chunkerRev = "uniform" => attemptDuration' = Max(CutDuration \div 2, 1000)
          ELSE /\ Len(chunks') = Len(chunks) + 1
               /\ chunks'[Len(chunks')].duration = CutDuration
               /\ CutSize > maxChunkBytes => chunks'[Len(chunks')].index \in sizeWarnings'
               /\ cpc' \in {"cut", "done"}

\* the halving revision alone
C36_UniformHalves == [][chunkerRev = "uniform" => HalvesOrEmits]_vars

\* C36: when a cut chunk's encoded size exceeds 18 MiB the chunker halves the
\* target duration and cuts again, until the size is at most 18 MiB or the
\* target is at most 1 s; a chunk that is still too large is emitted with a
\* warning, and the job does not fail.
C36_HalveUntilFits ==
    /\ [](cpc # "failed")
    /\ [][HalvesOrEmits]_vars

-----------------------------------------------------------------------------
\* class Semaphore on its own: a semaphore constructed with any number of
\* permits, used by any number of tasks through acquire(task).

TaskIds == 1..MaxTasks

Settlements == {"resolved", "rejected"}

Pop(queue) ==
    [next |-> queue[Len(queue)], rest |-> SubSeq(queue, 1, Len(queue) - 1)]
\* this.waitQueue.shift(): the resolver queued first, and the queue without it
Shift(queue) == [next |-> Head(queue), rest |-> Tail(queue)]

ReleasesOnResolveOnly(how) == how = "resolved"
\* acquire: release() is in the finally block of the try around the task
ReleasesOnSettle(how) == TRUE

\* acquire(task) up to the end of waitForPermit's executor: a free permit is
\* taken and the promise resolved, or the resolver is queued
Acquire(t) ==
    /\ t <= Len(task)
    /\ task[t] = "created"
    /\ IF permits > 0
       THEN /\ permits' = permits - 1
            /\ task' = [task EXCEPT ![t] = "running"]
            /\ UNCHANGED waitQueue
       ELSE /\ waitQueue' = Append(waitQueue, t)
            /\ task' = [task EXCEPT ![t] = "waiting"]
            /\ UNCHANGED permits
    /\ UNCHANGED capacity

\* the task of acquire settles and release() runs: the permit goes to the
\* head of the wait queue, or back to the free ones
TaskSettles(t, how) ==
    /\ t <= Len(task)
    /\ task[t] = "running"
    /\ IF ~ReleasesOnSettle(how)
       THEN /\ task' = [task EXCEPT ![t] = how]
            /\ UNCHANGED <<permits, waitQueue>>
       ELSE IF waitQueue # <<>>
       THEN /\ task' = [task EXCEPT ![t] = how, ![Shift(waitQueue).next] = "running"]
            /\ waitQueue' = Shift(waitQueue).rest
            /\ UNCHANGED permits
       ELSE /\ task' = [task EXCEPT ![t] = how]
            /\ permits' = permits + 1
            /\ UNCHANGED waitQueue
    /\ UNCHANGED capacity

\* new Semaphore(P) and the tasks about to call acquire
SemaphoreInit ==
    /\ ChunkerOff
    /\ StitchOff
    /\ PipelineOff
    /\ ApiOff
    /\ GuardOff
    /\ TransformOff
    /\ whisperRev = "single"
    /\ numChunks = 0
    /\ tpc = "off"
    /\ transcriptionAttempt = 1
    /\ attempt = 1
    /\ batchAttempts = 0
    /\ cst = [c \in ChunkIds |-> "idle"]
    /\ attemptNumber = [c \in ChunkIds |-> 0]
    /\ errors = [c \in ChunkIds |-> <<>>]
    /\ responses = [c \in ChunkIds |-> <<>>]
    /\ cache = [c \in ChunkIds |-> "none"]
    /\ results = <<>>
    /\ chunkResults = <<>>
    /\ permFailed = {}
    /\ flakyChunk = 0
    /\ cacheData = [c \in ChunkIds |-> 0]
    /\ capacity \in 1..MaxPermits
    /\ permits = capacity
    /\ waitQueue = <<>>
    /\ \E n \in 1..MaxTasks : task = [t \in 1..n |-> "created"]

SemaphoreUnchanged ==
    UNCHANGED <<chunkerVars, stitchVars, pipelineVars, apiVars, guardVars, transformVars,
                flakyChunk, cacheData, whisperRev, numChunks, tpc, transcriptionAttempt,
                attempt, batchAttempts, cst, attemptNumber, errors, responses, cache,
                results, chunkResults, permFailed>>

SemaphoreNext ==
    \/ \E t \in TaskIds : Acquire(t) /\ SemaphoreUnchanged
    \/ \E t \in TaskIds, how \in Settlements : TaskSettles(t, how) /\ SemaphoreUnchanged

SemaphoreSpec == SemaphoreInit /\ [][SemaphoreNext]_vars

\* every call of acquire gets to waitForPermit and every running task ends
SemaphoreLiveSpec ==
    /\ SemaphoreSpec
    /\ \A t \in TaskIds : WF_vars(Acquire(t) /\ SemaphoreUnchanged)
    /\ \A t \in TaskIds :
          WF_vars(\E how \in Settlements : TaskSettles(t, how) /\ SemaphoreUnchanged)

Running == {t \in 1..Len(task) : task[t] = "running"}
Waiting == {t \in 1..Len(task) : task[t] = "waiting"}
Settled == {t \in 1..Len(task) : task[t] \in Settlements}

\* C37: the Semaphore conserves permits: at every moment free permits +
\* running tasks = P, the free-permit count is never negative and never above
\* P, and a released permit is handed to the longest-waiting task (the head of
\* the FIFO queue) whenever a task is waiting.
C37_PermitsConserved ==
    /\ [](/\ permits + Cardinality(Running) = capacity
          /\ permits >= 0
          /\ permits <= capacity
          /\ Waiting = {waitQueue[i] : i \in 1..Len(waitQueue)}
          /\ Cardinality(Waiting) = Len(waitQueue)
          /\ waitQueue # <<>> => permits = 0)
    /\ [][/\ \A t \in Running :
               (task'[t] \in Settlements /\ waitQueue # <<>>)
                  => /\ task'[Head(waitQueue)] = "running"
                     /\ waitQueue' = Tail(waitQueue)
                     /\ permits' = permits
          /\ \A i \in 1..Len(waitQueue), j \in 1..Len(waitQueue) :
               (i < j /\ task'[waitQueue[j]] = "running") => task'[waitQueue[i]] = "running"
          /\ \A i \in 1..Len(waitQueue) :
               task'[waitQueue[i]] = "waiting"
                  => \E k \in 1..Len(waitQueue') : k <= i /\ waitQueue'[k] = waitQueue[i]]_vars

\* a semaphore of one permit and four tasks: the first has resolved, the
\* second runs, the third and fourth wait in the order of their calls
C37_Witness ==
    /\ capacity = 1
    /\ task = <<"resolved", "running", "waiting", "waiting">>
    /\ waitQueue = <<3, 4>>
    /\ permits = 0

\* C38: a task run under Semaphore.acquire gives its permit back whether it
\* resolves or throws; so, as long as every running task eventually ends,
\* every waiting task eventually starts and all tasks eventually settle (the
\* Promise.all over them returns): no deadlock, no lost wake-up, for any
\* number of tasks and any P >= 1.
C38_EveryWaiterStarts ==
    /\ [][\A t \in Running :
             task'[t] \in Settlements
                => \/ permits' = permits + 1
                   \/ \E w \in Waiting : task'[w] = "running" /\ permits' = permits]_vars
    /\ \A t \in TaskIds :
          (t <= Len(task) /\ task[t] = "waiting")
             ~> (t <= Len(task) /\ task[t] = "running")
    /\ <>(Settled = 1..Len(task) /\ permits = capacity /\ waitQueue = <<>>)

\* four tasks on a semaphore of one permit have all settled, the first three
\* by throwing, and the permit is free again
C38_Witness ==
    /\ capacity = 1
    /\ task = <<"rejected", "rejected", "rejected", "resolved">>
    /\ permits = 1
    /\ waitQueue = <<>>

\* C39: planSilenceBasedChunks terminates for every input, silences lying
\* before the current chunk start included: each iteration of its loop either
\* advances currentStart by at least 0.1 s or ends the loop, and currentStart
\* never passes the total duration, so the plans are at most one per 0.1 s.
PlanLoopEnds == cpc' # "plan"

C39_PlanningTerminates ==
    /\ [](chunkerRev = "smart"
            => /\ currentStart <= SafeOriginalDuration(originalDuration)
               /\ Len(plans) * negligibleDuration <= currentStart)
    /\ [][cpc = "plan"
            => \/ PlanLoopEnds
               \/ currentStart' >= currentStart + negligibleDuration]_vars

\* the loop ended by its break on an iteration whose silence-centre cut lay
\* before the current chunk start
C39_Witness ==
    /\ chunkerRev = "smart"
    /\ cpc \in {"cut", "done", "failed"}
    /\ Len(plans) > 0
    /\ currentStart < SafeOriginalDuration(originalDuration)
    /\ \E i \in 1..Len(silences) : SilenceCenter(silences[i]) < currentStart
    /\ PlanIteration(currentStart, SafeOriginalDuration(originalDuration),
            IdealChunkDurationOriginal(originalDuration, originalSizeBytes, speedFactor),
            silences).duration < 0

\* the loop ran more than one iteration before it ended
C39_SeveralIterations == cpc \in {"cut", "done", "failed"} /\ Len(plans) >= 2
====
